---- MODULE Spec2Model ----
(***************************************************************************)
(* Model of the x86-64 paging code of libhermitMPK                          *)
(* (librs/src/arch/x86_64/mm/paging.rs).                                    *)
(*                                                                         *)
(* A 64-bit machine word (usize) is the set of the positions of its 1 bits, *)
(* so that masks, shifts and the wrap-around of additions are exact at the  *)
(* real width: 0x8000_0000_0000 is {47}, 0xFFFF_FFFF_FFFF_F000 is 12..63.   *)
(***************************************************************************)
EXTENDS Integers, FiniteSets, Sequences, TLC

(***************************************************************************)
(* Machine words                                                            *)
(***************************************************************************)
\* the bit positions of a usize
WordBits == 0..63

\* a & b, a | b, !a
BitAnd(a, b) == a \cap b
BitOr(a, b) == a \cup b
BitNot(a) == WordBits \ a

\* a << k and a >> k (bits shifted out are lost)
Shl(a, k) == {b + k : b \in a} \cap WordBits
Shr(a, k) == {b - k : b \in {c \in a : c >= k}}

\* unsigned a < b, a <= b: the highest bit in which they differ is in b
Lt(a, b) == \E i \in b \ a : \A j \in a \ b : j < i
Le(a, b) == a = b \/ Lt(a, b)

\* the lowest position from k upwards whose bit in a equals v (64 if none)
FirstBit(a, k, v) ==
    CHOOSE j \in k..64 :
        /\ j = 64 \/ (j \in a) = v
        /\ \A i \in k..(j - 1) : (i \in a) # v

\* a + 2^k modulo 2^64, and whether that addition carries out of bit 63
AddPow2(a, k) ==
    LET top == FirstBit(a, k, FALSE)
    IN  (a \ (k..(top - 1))) \cup ({top} \cap WordBits)
CarryPow2(a, k) == FirstBit(a, k, FALSE) = 64

\* a - 2^k modulo 2^64, and whether that subtraction borrows out of bit 63
SubPow2(a, k) ==
    LET low == FirstBit(a, k, TRUE)
    IN  (a \ {low}) \cup (k..(low - 1))
BorrowPow2(a, k) == FirstBit(a, k, TRUE) = 64

\* the word of a small natural number
FromNat(n) == {b \in 0..30 : (n \div (2 ^ b)) % 2 = 1}

(***************************************************************************)
(* Constants of paging.rs                                                   *)
(***************************************************************************)
PAGE_BITS == 12
PAGE_MAP_BITS == 9
PAGE_MAP_MASK == 0..8

PRESENT == {0}
WRITABLE == {1}
USER_ACCESSIBLE == {2}
WRITE_THROUGH == {3}
CACHE_DISABLE == {4}
ACCESSED == {5}
DIRTY == {6}
HUGE_PAGE == {7}
GLOBAL == {8}
EXECUTE_DISABLE == {63}
BLANK == {}

\* every bit PageTableEntryFlags defines; from_bits_truncate keeps these
AllFlags ==
    PRESENT \cup WRITABLE \cup USER_ACCESSIBLE \cup WRITE_THROUGH \cup CACHE_DISABLE
        \cup ACCESSED \cup DIRTY \cup HUGE_PAGE \cup GLOBAL \cup EXECUTE_DISABLE
from_bits_truncate(bits) == BitAnd(bits, AllFlags)

\* PageSize implementations: SIZE is 2^SizeBit
BasePageSize == [SizeBit |-> 12, MAP_LEVEL |-> 0, MAP_EXTRA_FLAG |-> BLANK]
LargePageSize == [SizeBit |-> 21, MAP_LEVEL |-> 1, MAP_EXTRA_FLAG |-> HUGE_PAGE]
HugePageSize == [SizeBit |-> 30, MAP_LEVEL |-> 2, MAP_EXTRA_FLAG |-> HUGE_PAGE]
PageSizes == {BasePageSize, LargePageSize, HugePageSize}

\* S::SIZE and S::SIZE - 1
SIZE(S) == {S.SizeBit}
OffsetMask(S) == 0..(S.SizeBit - 1)

\* processor::get_physical_address_bits()
PhysicalAddressBits == 40

(***************************************************************************)
(* PageTableEntry                                                           *)
(***************************************************************************)
address(e) == BitAnd(BitAnd(e, BitNot(OffsetMask(BasePageSize))), BitNot(EXECUTE_DISABLE))

is_present(e) == BitAnd(e, PRESENT) # {}

\* set(): ok is FALSE when one of the two assertions fails (nothing is written)
EntrySet(physical_address, flags) ==
    LET aligned ==
            IF HUGE_PAGE \subseteq flags
            THEN BitAnd(physical_address, OffsetMask(LargePageSize)) = {}
            ELSE BitAnd(physical_address, OffsetMask(BasePageSize)) = {}
        fits == Shr(physical_address, PhysicalAddressBits) = {}
    IN  [ok |-> aligned /\ fits,
         val |-> BitOr(physical_address, BitOr(BitOr(PRESENT, ACCESSED), flags))]

(***************************************************************************)
(* Page                                                                     *)
(***************************************************************************)
\* 0x8000_0000_0000 and 0xFFFF_8000_0000_0000
GapStart == {47}
GapEnd == 47..63

\* is_valid_address that excludes 0xFFFF_8000_0000_0000
is_valid_address_AboveGapEnd(virtual_address) ==
    Lt(virtual_address, GapStart) \/ Lt(GapEnd, virtual_address)

\* Page::is_valid_address()
is_valid_address(virtual_address) ==
    Lt(virtual_address, GapStart) \/ Le(GapEnd, virtual_address)

\* processor::supports_1gib_pages()
supports_1gib_pages == TRUE

\* including_address(): ok is FALSE when an assertion fails
including_address(S, virtual_address) ==
    [ok |-> is_valid_address(virtual_address)
              /\ (S.SizeBit = 30 => supports_1gib_pages),
     page |-> BitAnd(virtual_address, BitNot(OffsetMask(S)))]

\* (virtual_address >> PAGE_BITS >> L * PAGE_MAP_BITS) & PAGE_MAP_MASK: the
\* number made of the PAGE_MAP_BITS bits from bit PAGE_BITS + L * PAGE_MAP_BITS
table_index(page, L) ==
    LET low == PAGE_BITS + L * PAGE_MAP_BITS
        b(i) == IF low + i \in page THEN 2 ^ i ELSE 0
    IN  b(0) + b(1) + b(2) + b(3) + b(4) + b(5) + b(6) + b(7) + b(8)

(***************************************************************************)
(* Physical memory and the MMU                                              *)
(*                                                                         *)
(* Physical memory is a function from <<frame, index>> to the non-zero      *)
(* 8-byte words it holds: every word outside the domain is zero.            *)
(***************************************************************************)
Read(m, frame, index) ==
    IF <<frame, index>> \in DOMAIN m THEN m[<<frame, index>>] ELSE {}

Write(m, frame, index, word) ==
    LET slot == <<frame, index>>
        keep == IF word = {} THEN DOMAIN m \ {slot} ELSE DOMAIN m \cup {slot}
    IN  [x \in keep |-> IF x = slot THEN word ELSE m[x]]

\* physical frame of the PML4 (the value of CR3), and the virtual address
\* 0xFFFF_FFFF_FFFF_F000 at which the recursive mapping shows it
RootFrame == {12}
ROOT_PAGETABLE == 12..63

\* index of the recursive slot, and the entry boot code stores in it
SelfMapIndex == 511
SelfMapEntry == BitOr(RootFrame, BitOr(PRESENT, WRITABLE))

\* the frame bits of an entry as the MMU reads them (bits 12..51)
HwFrame(e) == BitAnd(e, 12..51)

NoTranslation == [ok |-> FALSE, phys |-> {}, level |-> 0, entry |-> {}, base |-> {}]

\* The page walk of the MMU for a linear address: the leaf entry, its level
\* and the physical address, or no translation.
HwWalk(m, va) ==
    LET e3 == Read(m, RootFrame, table_index(va, 3))
        e2 == Read(m, HwFrame(e3), table_index(va, 2))
        e1 == Read(m, HwFrame(e2), table_index(va, 1))
        e0 == Read(m, HwFrame(e1), table_index(va, 0))
        Leaf(e, lvl, bit) ==
            [ok |-> TRUE, level |-> lvl, entry |-> e,
             base |-> BitAnd(va, BitNot(0..(bit - 1))),
             phys |-> BitOr(BitAnd(e, bit..51), BitAnd(va, 0..(bit - 1)))]
    IN  IF ~is_valid_address(va) THEN NoTranslation
        ELSE IF ~is_present(e3) \/ HUGE_PAGE \subseteq e3 THEN NoTranslation
        ELSE IF ~is_present(e2) THEN NoTranslation
        ELSE IF HUGE_PAGE \subseteq e2 THEN Leaf(e2, 2, 30)
        ELSE IF ~is_present(e1) THEN NoTranslation
        ELSE IF HUGE_PAGE \subseteq e1 THEN Leaf(e1, 1, 21)
        ELSE IF ~is_present(e0) THEN NoTranslation
        ELSE Leaf(e0, 0, 12)

\* The frame behind the virtual address of a page table (a table is reached
\* by dereferencing its address in the recursive mapping).
TableFrame(m, table) ==
    LET w == HwWalk(m, table)
    IN  [ok |-> w.ok, frame |-> BitAnd(w.phys, BitNot(OffsetMask(BasePageSize)))]

\* entry.zero() for each of the 512 entries of the table in a frame
ZeroTable(m, frame) ==
    [x \in {y \in DOMAIN m : y[1] # frame} |-> m[x]]

(***************************************************************************)
(* get_pages(1): frames are handed out in order from 0x10_0000              *)
(***************************************************************************)
PoolSize == 8
PoolFrame(k) == BitOr({20}, Shl(FromNat(k), PAGE_BITS))
PoolFrames == {PoolFrame(k) : k \in 0..(PoolSize - 1)}

(***************************************************************************)
(* The walker (PageTableMethods).  A walker state ws carries the memory,    *)
(* the allocator position, the pages invalidated with invlpg, the return    *)
(* value and whether the kernel is still running ("ok") or has panicked.    *)
(***************************************************************************)
Panic(ws) == [ws EXCEPT !.status = "panic"]

\* subtable(): (table_address << PAGE_MAP_BITS) | (index << PAGE_BITS)
subtable(table, page, L) ==
    BitOr(Shl(table, PAGE_MAP_BITS), Shl(FromNat(table_index(page, L)), PAGE_BITS))

\* Option<PageTableEntry>, with the slot the entry was read from
None == [kind |-> "None", entry |-> {}, slot |-> <<>>]
Some(e, frame, index) == [kind |-> "Some", entry |-> e, slot |-> <<frame, index>>]
Faulted == [kind |-> "Fault", entry |-> {}, slot |-> <<>>]

RECURSIVE get_page_table_entry(_, _, _, _, _)
get_page_table_entry(m, table, L, S, page) ==
    LET t == TableFrame(m, table)
        index == table_index(page, L)
        e == Read(m, t.frame, index)
    IN  IF ~t.ok THEN Faulted
        ELSE IF ~is_present(e) THEN None
        ELSE IF L > S.MAP_LEVEL
             THEN get_page_table_entry(m, subtable(table, page, L), L - 1, S, page)
             ELSE Some(e, t.frame, index)

\* map_page_in_this_table that forgets DIRTY
map_page_in_this_table_NoDirty(ws, table, L, S, page, physical_address, flags) ==
    LET t == TableFrame(ws.mem, table)
        index == table_index(page, L)
        flush == is_present(Read(ws.mem, t.frame, index))
        r == EntrySet(physical_address, BitOr(S.MAP_EXTRA_FLAG, flags))
    IN  IF L # S.MAP_LEVEL \/ ~t.ok \/ ~r.ok THEN Panic(ws)
        ELSE [ws EXCEPT !.mem = Write(ws.mem, t.frame, index, BitAnd(r.val, BitNot(DIRTY))),
                        !.inv = IF flush THEN @ \cup {page} ELSE @,
                        !.ret = flush]

\* map_page_in_this_table that reads is_present() after set()
map_page_in_this_table_FlushAfterSet(ws, table, L, S, page, physical_address, flags) ==
    LET t == TableFrame(ws.mem, table)
        index == table_index(page, L)
        r == EntrySet(physical_address, BitOr(BitOr(DIRTY, S.MAP_EXTRA_FLAG), flags))
        flush == is_present(r.val)
    IN  IF L # S.MAP_LEVEL \/ ~t.ok \/ ~r.ok THEN Panic(ws)
        ELSE [ws EXCEPT !.mem = Write(ws.mem, t.frame, index, r.val),
                        !.inv = IF flush THEN @ \cup {page} ELSE @,
                        !.ret = flush]

\* map_page_in_this_table that never calls flush_from_tlb()
map_page_in_this_table_NoInvlpg(ws, table, L, S, page, physical_address, flags) ==
    LET t == TableFrame(ws.mem, table)
        index == table_index(page, L)
        flush == is_present(Read(ws.mem, t.frame, index))
        r == EntrySet(physical_address, BitOr(BitOr(DIRTY, S.MAP_EXTRA_FLAG), flags))
    IN  IF L # S.MAP_LEVEL \/ ~t.ok \/ ~r.ok THEN Panic(ws)
        ELSE [ws EXCEPT !.mem = Write(ws.mem, t.frame, index, r.val),
                        !.ret = flush]

\* map_page_in_this_table whose set() writes the entry before it asserts
map_page_in_this_table_SetThenAssert(ws, table, L, S, page, physical_address, flags) ==
    LET t == TableFrame(ws.mem, table)
        index == table_index(page, L)
        flush == is_present(Read(ws.mem, t.frame, index))
        r == EntrySet(physical_address, BitOr(BitOr(DIRTY, S.MAP_EXTRA_FLAG), flags))
        w == [ws EXCEPT !.mem = Write(ws.mem, t.frame, index, r.val),
                        !.inv = IF flush THEN @ \cup {page} ELSE @,
                        !.ret = flush]
    IN  IF L # S.MAP_LEVEL \/ ~t.ok THEN Panic(ws)
        ELSE IF ~r.ok THEN Panic(w) ELSE w

map_page_in_this_table(ws, table, L, S, page, physical_address, flags) ==
    LET t == TableFrame(ws.mem, table)
        index == table_index(page, L)
        flush == is_present(Read(ws.mem, t.frame, index))
        r == EntrySet(physical_address, BitOr(BitOr(DIRTY, S.MAP_EXTRA_FLAG), flags))
    IN  IF L # S.MAP_LEVEL \/ ~t.ok \/ ~r.ok THEN Panic(ws)
        ELSE [ws EXCEPT !.mem = Write(ws.mem, t.frame, index, r.val),
                        !.inv = IF flush THEN @ \cup {page} ELSE @,
                        !.ret = flush]

\* unmap_page_in_this_table that only flushes the TLB
unmap_page_in_this_table_NoZero(ws, table, L, S, page) ==
    LET t == TableFrame(ws.mem, table)
    IN  IF L # S.MAP_LEVEL \/ ~t.ok THEN Panic(ws)
        ELSE [ws EXCEPT !.inv = @ \cup {page}]

unmap_page_in_this_table(ws, table, L, S, page) ==
    LET t == TableFrame(ws.mem, table)
        index == table_index(page, L)
    IN  IF L # S.MAP_LEVEL \/ ~t.ok THEN Panic(ws)
        ELSE [ws EXCEPT !.mem = Write(ws.mem, t.frame, index, {}),
                        !.inv = @ \cup {page}]

\* map_page without the loop that zeroes the new table
NewSubtable_NotZeroed(ws, table, L, page) ==
    LET t == TableFrame(ws.mem, table)
        index == table_index(page, L)
        r == EntrySet(PoolFrame(ws.next), WRITABLE)
        m1 == Write(ws.mem, t.frame, index, r.val)
        s == TableFrame(m1, subtable(table, page, L))
    IN  IF ws.next >= PoolSize \/ ~r.ok \/ ~s.ok THEN Panic(ws)
        ELSE [ws EXCEPT !.mem = m1, !.next = @ + 1]

\* the part of map_page that creates a missing subtable
NewSubtable(ws, table, L, page) ==
    LET t == TableFrame(ws.mem, table)
        index == table_index(page, L)
        r == EntrySet(PoolFrame(ws.next), WRITABLE)
        m1 == Write(ws.mem, t.frame, index, r.val)
        s == TableFrame(m1, subtable(table, page, L))
    IN  IF ws.next >= PoolSize \/ ~r.ok \/ ~s.ok THEN Panic(ws)
        ELSE [ws EXCEPT !.mem = ZeroTable(m1, s.frame), !.next = @ + 1]

\* map_page that creates a subtable whether the entry is present or not
RECURSIVE map_page_AlwaysNew(_, _, _, _, _, _, _)
map_page_AlwaysNew(ws, table, L, S, page, physical_address, flags) ==
    LET t == TableFrame(ws.mem, table)
    IN  IF L < S.MAP_LEVEL THEN Panic(ws)
        ELSE IF L > S.MAP_LEVEL
        THEN IF ~t.ok THEN Panic(ws)
             ELSE CHOOSE r \in
                      {IF ws1.status # "ok" THEN ws1
                       ELSE map_page_AlwaysNew(ws1, subtable(table, page, L), L - 1, S,
                                               page, physical_address, flags) :
                          ws1 \in {NewSubtable(ws, table, L, page)}} : TRUE
        ELSE map_page_in_this_table(ws, table, L, S, page, physical_address, flags)

RECURSIVE map_page(_, _, _, _, _, _, _)
map_page(ws, table, L, S, page, physical_address, flags) ==
    LET t == TableFrame(ws.mem, table)
        e == Read(ws.mem, t.frame, table_index(page, L))
    IN  IF L < S.MAP_LEVEL THEN Panic(ws)
        ELSE IF L > S.MAP_LEVEL
        THEN IF ~t.ok THEN Panic(ws)
             ELSE CHOOSE r \in
                      {IF ws1.status # "ok" THEN ws1
                       ELSE map_page(ws1, subtable(table, page, L), L - 1, S, page,
                                     physical_address, flags) :
                          ws1 \in {IF is_present(e) THEN ws
                                   ELSE NewSubtable(ws, table, L, page)}} : TRUE
        ELSE map_page_in_this_table(ws, table, L, S, page, physical_address, flags)

\* unmap_page that returns when an entry on the way is not present
RECURSIVE unmap_page_NoAssert(_, _, _, _, _)
unmap_page_NoAssert(ws, table, L, S, page) ==
    LET t == TableFrame(ws.mem, table)
        e == Read(ws.mem, t.frame, table_index(page, L))
    IN  IF L < S.MAP_LEVEL THEN Panic(ws)
        ELSE IF L > S.MAP_LEVEL
        THEN IF ~t.ok \/ ~is_present(e) THEN ws
             ELSE unmap_page_NoAssert(ws, subtable(table, page, L), L - 1, S, page)
        ELSE unmap_page_in_this_table(ws, table, L, S, page)

RECURSIVE unmap_page(_, _, _, _, _)
unmap_page(ws, table, L, S, page) ==
    LET t == TableFrame(ws.mem, table)
        e == Read(ws.mem, t.frame, table_index(page, L))
    IN  IF L < S.MAP_LEVEL THEN Panic(ws)
        ELSE IF L > S.MAP_LEVEL
        THEN IF ~t.ok \/ ~is_present(e) THEN Panic(ws)
             ELSE unmap_page(ws, subtable(table, page, L), L - 1, S, page)
        ELSE unmap_page_in_this_table(ws, table, L, S, page)

(***************************************************************************)
(* State                                                                    *)
(***************************************************************************)
VARIABLES
    mem,        \* physical memory (page tables and frames)
    next,       \* number of frames get_pages has handed out
    panicked,   \* the kernel has panicked (an assertion failed, or a fault)
    wrapping,   \* build profile: usize overflow wraps (release) or panics (debug)
    online,     \* the CPUs that run
    locked,     \* ROOT_PAGETABLE's spinlock is taken
    cpu,        \* per CPU: the call it executes and its position in it
    tlb,        \* per CPU: the cached translations
    ipi,        \* per CPU: a TLB-flush IPI is pending
    shadow,     \* memory and allocator if every call ran alone, in lock order
    calls,      \* number of calls made so far
    arena,      \* pages handed out by physicalmem and virtualmem, and the regions
    pkru,       \* per CPU: the permission of each protection key (PKRU)
    zero_pages  \* runtime_osinit is not null: the fault handler zeroes frames

vars ==
    <<mem, next, panicked, wrapping, online, locked, cpu, tlb, ipi, shadow, calls,
      arena, pkru, zero_pages>>

\* the variables no action changes
env == <<wrapping, online, zero_pages>>

CPUS == {0, 1}

\* bounds of the exploration
MaxCalls == 2
MaxPageSteps == 3

Idle ==
    [pc |-> "idle", fn |-> "none", op |-> "none", S |-> BasePageSize, addr |-> {},
     first |-> {}, current |-> {}, last |-> {}, pa0 |-> {}, pa |-> {},
     flags |-> {}, do_ipi |-> FALSE, send_ipi |-> FALSE, holds |-> FALSE,
     npages |-> {}, anyPre |-> FALSE, ipis |-> 0, steps |-> 0, stepped |-> FALSE, stepPage |-> {},
     stepPa |-> {}, stepRet |-> FALSE, stepPre |-> FALSE, stepSlot |-> <<>>,
     stepCached |-> FALSE,
     heap |-> [null |-> TRUE, start |-> {}, end |-> {}], eoi |-> 0,
     nextPre |-> 0, newTables |-> 0, bits |-> {},
     domain |-> "none", xd |-> FALSE, sz |-> 0,
     key |-> 0, perm |-> "RW", value |-> {}, err |-> {}, size |-> {},
     diag |-> <<>>, ret |-> {}]

\* general a + b modulo 2^64 and whether it overflows: the carry into bit i
\* is generated at a lower bit set in both and propagated by bits set in one
CarryInto(a, b, i) ==
    \E j \in a \cap b : j < i /\ \A l \in (j + 1)..(i - 1) : l \in a \cup b
Add(a, b) == {i \in WordBits : ((i \in a) # (i \in b)) # CarryInto(a, b, i)}
Overflows(a, b) == CarryInto(a, b, 64)

(***************************************************************************)
(* Ranges of pages                                                          *)
(***************************************************************************)
\* get_page_range(): first and last page of npages pages from viraddr;
\* ok is FALSE when an assertion or (debug profile) an overflow check fails
get_page_range(S, viraddr, npages) ==
    LET n1 == SubPow2(npages, 0)
        mulOv == \E b \in n1 : b + S.SizeBit > 63
        off == Shl(n1, S.SizeBit)
        f == including_address(S, viraddr)
        l == including_address(S, Add(viraddr, off))
    IN  [ok |-> (wrapping \/ ~(npages = {} \/ mulOv \/ Overflows(viraddr, off)))
                  /\ f.ok /\ l.ok /\ Le(f.page, l.page),
         first |-> f.page, last |-> l.page]

\* the loop with send_ipi = map_page(..) in place of send_ipi |= map_page(..)
LoopStep_LastOnly(ws, k) ==
    LET bit == k.S.SizeBit
        w0 == [ws EXCEPT !.inv = {}, !.ret = FALSE]
    IN  IF ~Le(k.current, k.last)
        THEN [ws |-> w0, k |-> [k EXCEPT !.pc = "flush"]]
        ELSE IF CarryPow2(k.current, bit) /\ ~wrapping
        THEN [ws |-> Panic(w0), k |-> [k EXCEPT !.pc = "panic"]]
        ELSE CHOOSE r \in
                 {IF w1.status # "ok"
                  THEN [ws |-> w1, k |-> [k EXCEPT !.pc = "panic"]]
                  ELSE [ws |-> w1,
                        k |-> [k EXCEPT
                            !.current = AddPow2(@, bit),
                            !.pa = IF k.op = "map" THEN AddPow2(@, bit) ELSE @,
                            !.send_ipi = w1.ret,
                            !.steps = @ + 1,
                            !.stepped = TRUE,
                            !.stepPage = k.current,
                            !.stepPa = k.pa,
                            !.stepRet = w1.ret,
                            !.stepPre = pre.kind = "Some",
                            !.stepSlot = pre.slot,
                            !.anyPre = @ \/ pre.kind = "Some"]] :
                     pre \in {get_page_table_entry(ws.mem, ROOT_PAGETABLE, 3, k.S,
                                                   k.current)},
                     w1 \in {IF k.op = "unmap"
                             THEN unmap_page(w0, ROOT_PAGETABLE, 3, k.S, k.current)
                             ELSE map_page(w0, ROOT_PAGETABLE, 3, k.S, k.current,
                                           k.pa, k.flags)}} : TRUE

\* One turn of the loop of map_pages / unmap_pages on the call k of a CPU:
\* PageIter::next, then map_page or unmap_page from the root.
\* (CHOOSE r \in {e : x \in {v}} : TRUE is e with x bound to the value of v.)
LoopStep(ws, k) ==
    LET bit == k.S.SizeBit
        w0 == [ws EXCEPT !.inv = {}, !.ret = FALSE]
    IN  IF ~Le(k.current, k.last)
        THEN [ws |-> w0, k |-> [k EXCEPT !.pc = "flush"]]
        ELSE IF CarryPow2(k.current, bit) /\ ~wrapping
        THEN [ws |-> Panic(w0), k |-> [k EXCEPT !.pc = "panic"]]
        ELSE CHOOSE r \in
                 {IF w1.status # "ok"
                  THEN [ws |-> w1, k |-> [k EXCEPT !.pc = "panic"]]
                  ELSE [ws |-> w1,
                        k |-> [k EXCEPT
                            !.current = AddPow2(@, bit),
                            !.pa = IF k.op = "map" THEN AddPow2(@, bit) ELSE @,
                            !.send_ipi = @ \/ w1.ret,
                            !.steps = @ + 1,
                            !.stepped = TRUE,
                            !.stepPage = k.current,
                            !.stepPa = k.pa,
                            !.stepRet = w1.ret,
                            !.stepPre = pre.kind = "Some",
                            !.stepSlot = pre.slot,
                            !.anyPre = @ \/ pre.kind = "Some"]] :
                     pre \in {get_page_table_entry(ws.mem, ROOT_PAGETABLE, 3, k.S,
                                                   k.current)},
                     w1 \in {IF k.op = "unmap"
                             THEN unmap_page(w0, ROOT_PAGETABLE, 3, k.S, k.current)
                             ELSE map_page(w0, ROOT_PAGETABLE, 3, k.S, k.current,
                                           k.pa, k.flags)}} : TRUE

\* the number of page tables (PDPT, PDT, PGT) that map_page::<BasePageSize>
\* has to create on the way to the leaf slot of a page
MissingTables(m, page) ==
    LET e3 == get_page_table_entry(m, ROOT_PAGETABLE, 3, [MAP_LEVEL |-> 3], page)
        e2 == get_page_table_entry(m, ROOT_PAGETABLE, 3, HugePageSize, page)
        e1 == get_page_table_entry(m, ROOT_PAGETABLE, 3, LargePageSize, page)
    IN  IF e3.kind # "Some" THEN 3 ELSE IF e2.kind # "Some" THEN 2
        ELSE IF e1.kind # "Some" THEN 1 ELSE 0

\* the whole loop, run alone
RECURSIVE RunLoop(_, _)
RunLoop(ws, k) ==
    IF k.pc # "loop" \/ k.steps >= MaxPageSteps THEN [ws |-> ws, k |-> k]
    ELSE CHOOSE x \in {RunLoop(r.ws, r.k) : r \in {LoopStep(ws, k)}} : TRUE

(***************************************************************************)
(* TLB                                                                      *)
(***************************************************************************)
LevelBit(level) == PAGE_BITS + level * PAGE_MAP_BITS
Covers(t, va) == BitAnd(va, BitNot(0..(LevelBit(t.level) - 1))) = t.base

\* invlpg for each address of a set
Invlpg(cached, pages) == {t \in cached : \A va \in pages : ~Covers(t, va)}

(***************************************************************************)
(* virt_to_phys, the page-fault handler and map_cmdline                     *)
(***************************************************************************)
\* &kernel_start and image_size (set by the loader)
kernel_start == {23}
image_size == {21, 20}

\* ((kernel_start + image_size) & !(LargePageSize::SIZE - 1)).saturating_add(SIZE)
kernel_end ==
    LET a == BitAnd(Add(kernel_start, image_size), BitNot(OffsetMask(LargePageSize)))
    IN  IF CarryPow2(a, LargePageSize.SizeBit) THEN WordBits
        ELSE AddPow2(a, LargePageSize.SizeBit)

\* the page size virt_to_phys walks with
TranslateSize(addr) ==
    IF Le(kernel_start, addr) /\ Le(addr, kernel_end) THEN LargePageSize
    ELSE BasePageSize

\* virt_to_phys with unwrap_or_default() in place of expect()
virt_to_phys_OrDefault(m, addr) ==
    LET S == TranslateSize(addr)
        p == including_address(S, addr)
        e == get_page_table_entry(m, ROOT_PAGETABLE, 3, S, p.page)
    IN  IF ~p.ok \/ e.kind = "Fault" THEN [ok |-> FALSE, phys |-> {}]
        ELSE [ok |-> TRUE,
              phys |-> BitOr(address(e.entry), BitAnd(addr, OffsetMask(S)))]

\* virt_to_phys(): ok is FALSE when it panics
virt_to_phys(m, addr) ==
    LET S == TranslateSize(addr)
        p == including_address(S, addr)
        e == get_page_table_entry(m, ROOT_PAGETABLE, 3, S, p.page)
    IN  IF ~p.ok \/ e.kind # "Some" THEN [ok |-> FALSE, phys |-> {}]
        ELSE [ok |-> TRUE,
              phys |-> BitOr(address(e.entry), BitAnd(addr, OffsetMask(S)))]

\* task.heap of the current task: null, or [0xA000_0000, 0xA001_0000)
HeapStart == {31, 29}
HeapEnd == {31, 29, 16}
NoHeap == [null |-> TRUE, start |-> {}, end |-> {}]
TaskHeap == [null |-> FALSE, start |-> HeapStart, end |-> HeapEnd]

\* the heap test with virtual_address <= heap.end
InHeap_EndIncluded(heap, va) == ~heap.null /\ Le(heap.start, va) /\ Le(va, heap.end)

\* the condition of the first branch of page_fault_handler
InHeap(heap, va) == ~heap.null /\ Le(heap.start, va) /\ Lt(va, heap.end)

\* the locked block that maps the page whether or not it is present
FaultBody_AlwaysMap(ws, k) ==
    LET p == including_address(BasePageSize, k.addr)
        frame == PoolFrame(ws.next)
        w1 == [ws EXCEPT !.next = @ + 1,
                         !.mem = IF zero_pages THEN ZeroTable(@, frame) ELSE @]
    IN  IF ~p.ok \/ ws.next >= PoolSize THEN Panic(ws)
        ELSE map_page(w1, ROOT_PAGETABLE, 3, BasePageSize, p.page, frame,
                      BitOr(WRITABLE, EXECUTE_DISABLE))

\* the locked block that takes its frame before it looks the page up
FaultBody_FrameFirst(ws, k) ==
    LET p == including_address(BasePageSize, k.addr)
        e == get_page_table_entry(ws.mem, ROOT_PAGETABLE, 3, BasePageSize, p.page)
        frame == PoolFrame(ws.next)
        w1 == [ws EXCEPT !.next = @ + 1,
                         !.mem = IF zero_pages THEN ZeroTable(@, frame) ELSE @]
    IN  IF ~p.ok \/ e.kind = "Fault" THEN Panic(ws)
        ELSE IF ws.next >= PoolSize THEN Panic(ws)
        ELSE IF e.kind = "Some" THEN w1
        ELSE map_page(w1, ROOT_PAGETABLE, 3, BasePageSize, p.page, frame,
                      BitOr(WRITABLE, EXECUTE_DISABLE))

\* the locked block that always takes its frame from get_pages(1)
FaultBody_NeverZeroed(ws, k) ==
    LET p == including_address(BasePageSize, k.addr)
        e == get_page_table_entry(ws.mem, ROOT_PAGETABLE, 3, BasePageSize, p.page)
        frame == PoolFrame(ws.next)
        w1 == [ws EXCEPT !.next = @ + 1]
    IN  IF ~p.ok \/ e.kind = "Fault" THEN Panic(ws)
        ELSE IF e.kind = "Some" THEN ws
        ELSE IF ws.next >= PoolSize THEN Panic(ws)
        ELSE map_page(w1, ROOT_PAGETABLE, 3, BasePageSize, p.page, frame,
                      BitOr(WRITABLE, EXECUTE_DISABLE))

\* the locked block of page_fault_handler for the fault address k.addr: the
\* frame comes from get_pages(1) (whatever it held stays in it) or, when
\* runtime_osinit is not null, from get_zeroed_page()
FaultBody(ws, k) ==
    LET p == including_address(BasePageSize, k.addr)
        e == get_page_table_entry(ws.mem, ROOT_PAGETABLE, 3, BasePageSize, p.page)
        frame == PoolFrame(ws.next)
        w1 == [ws EXCEPT !.next = @ + 1,
                         !.mem = IF zero_pages THEN ZeroTable(@, frame) ELSE @]
    IN  IF ~p.ok \/ e.kind = "Fault" THEN Panic(ws)
        ELSE IF e.kind = "Some" THEN ws
        ELSE IF ws.next >= PoolSize THEN Panic(ws)
        ELSE map_page(w1, ROOT_PAGETABLE, 3, BasePageSize, p.page, frame,
                      BitOr(WRITABLE, EXECUTE_DISABLE))

\* cmdline and cmdsize (set by the loader)
cmdline == {21, 16, 11}
cmdsize == {12}

\* what a call does between taking and dropping the lock, run alone
CallBody(ws, k) ==
    IF k.op \in {"map", "unmap"} THEN RunLoop(ws, [k EXCEPT !.pc = "loop"]).ws
    ELSE IF k.op = "fault" THEN FaultBody(ws, k)
    ELSE ws

(***************************************************************************)
(* Actions                                                                  *)
(***************************************************************************)
Running(c) == ~panicked /\ c \in online

\* SpinlockIrqSave: interrupts are off from lock() until the guard is dropped;
\* with interrupts on, a pending interrupt is taken before the next instruction
IrqOn(c) == cpu[c].pc \in {"idle", "return"}
NoIrqPending(c) == ~ipi[c]

KernelPanic(c, k) ==
    /\ panicked' = TRUE
    /\ cpu' = [cpu EXCEPT ![c] = [k EXCEPT !.pc = "panic"]]

Fresh(ws) == [mem |-> ws.mem, next |-> ws.next, inv |-> {}, status |-> "ok",
              ret |-> FALSE]

\* a call enters: k is its context once its range is computed
Enter(c, ok, k) ==
    /\ calls < MaxCalls
    /\ NoIrqPending(c)
    /\ calls' = calls + 1
    /\ IF ok THEN cpu' = [cpu EXCEPT ![c] = k] /\ UNCHANGED panicked
       ELSE KernelPanic(c, k)
    /\ UNCHANGED <<mem, next, env, pkru, locked, tlb, ipi, shadow>>

\* __page_map (map<S> for the page size S; __page_map itself is S = 4 KiB)
PageMap(c, S, viraddr, phyaddr, npages, bits, do_ipi) ==
    LET r == get_page_range(S, viraddr, npages)
    IN  /\ Running(c) /\ cpu[c].pc = "idle"
        /\ UNCHANGED arena
        /\ Enter(c, r.ok,
                   [Idle EXCEPT !.pc = "lock", !.fn = "__page_map", !.op = "map",
                                !.S = S, !.addr = viraddr, !.npages = npages,
                                !.first = r.first,
                                !.current = r.first, !.last = r.last,
                                !.pa0 = phyaddr, !.pa = phyaddr,
                                !.bits = bits,
                                !.flags = from_bits_truncate(bits), !.do_ipi = do_ipi])

\* page_unmap (unmap<S>)
PageUnmap(c, S, viraddr, npages) ==
    LET r == get_page_range(S, viraddr, npages)
    IN  /\ Running(c) /\ cpu[c].pc = "idle"
        /\ UNCHANGED arena
        /\ Enter(c, npages = {} \/ r.ok,
                   [Idle EXCEPT !.pc = IF npages = {} THEN "return" ELSE "lock",
                                !.fn = "page_unmap", !.op = "unmap",
                                !.S = S, !.addr = viraddr, !.npages = npages,
                                !.first = r.first,
                                !.current = r.first, !.last = r.last])

\* map_cmdline whose last page is the page of cmdline + cmdsize
MapCmdlineWith_EndIncluded(c, line, size) ==
    LET f == including_address(BasePageSize, line)
        l == including_address(BasePageSize, Add(line, size))
        pa == BitAnd(line, BitNot(OffsetMask(BasePageSize)))
    IN  /\ Running(c) /\ cpu[c].pc = "idle"
        /\ UNCHANGED arena
        /\ Enter(c, size = {} \/ (f.ok /\ l.ok /\ Le(f.page, l.page)),
                   [Idle EXCEPT !.pc = IF size = {} THEN "return" ELSE "lock",
                                !.fn = "map_cmdline", !.op = "map",
                                !.addr = line, !.size = size, !.first = f.page,
                                !.current = f.page, !.last = l.page,
                                !.pa0 = pa, !.pa = pa,
                                !.flags = EXECUTE_DISABLE, !.do_ipi = TRUE])

\* map_cmdline, for a command line of size bytes at line
MapCmdlineWith(c, line, size) ==
    LET f == including_address(BasePageSize, line)
        l == including_address(BasePageSize, SubPow2(Add(line, size), 0))
        pa == BitAnd(line, BitNot(OffsetMask(BasePageSize)))
    IN  /\ Running(c) /\ cpu[c].pc = "idle"
        /\ UNCHANGED arena
        /\ Enter(c, size = {} \/ (f.ok /\ l.ok /\ Le(f.page, l.page)),
                   [Idle EXCEPT !.pc = IF size = {} THEN "return" ELSE "lock",
                                !.fn = "map_cmdline", !.op = "map",
                                !.addr = line, !.size = size, !.first = f.page,
                                !.current = f.page, !.last = l.page,
                                !.pa0 = pa, !.pa = pa,
                                !.flags = EXECUTE_DISABLE, !.do_ipi = TRUE])

\* map_cmdline
MapCmdline(c) == MapCmdlineWith(c, cmdline, cmdsize)

\* virt_to_phys (it changes no table; it is not counted in calls)
VirtToPhys(c, addr) ==
    LET S == TranslateSize(addr)
        p == including_address(S, addr)
        k == [Idle EXCEPT !.pc = "lock", !.fn = "virt_to_phys", !.op = "v2p",
                          !.S = S, !.addr = addr, !.first = p.page,
                          !.current = p.page, !.last = p.page]
    IN  /\ Running(c) /\ cpu[c].pc = "idle"
        /\ NoIrqPending(c)
        /\ IF p.ok THEN cpu' = [cpu EXCEPT ![c] = k] /\ UNCHANGED panicked
           ELSE KernelPanic(c, k)
        /\ UNCHANGED <<mem, next, env, pkru, locked, tlb, ipi, shadow, calls, arena>>

\* page_fault_handler for a fault at virtual_address (cr2) in a task with
\* the given heap: the heap branch, or apic_eoi() and panic!()
PageFault(c, heap, virtual_address) ==
    LET page == BitAnd(virtual_address, BitNot(OffsetMask(BasePageSize)))
        inside == InHeap(heap, virtual_address)
    IN  /\ Running(c) /\ cpu[c].pc = "idle"
        /\ UNCHANGED arena
        /\ Enter(c, inside,
                   [Idle EXCEPT !.pc = "lock", !.fn = "page_fault_handler",
                                !.op = "fault", !.addr = virtual_address,
                                !.heap = heap, !.eoi = IF inside THEN 0 ELSE 1,
                                !.first = page, !.current = page, !.last = page])

\* lock() that does not wait for the holder
Acquire_NoWait(c) ==
    /\ Running(c) /\ cpu[c].pc = "lock"
    /\ \E run \in {CallBody(Fresh(shadow), cpu[c])} :
        /\ locked' = TRUE
        /\ cpu' = [cpu EXCEPT ![c].holds = TRUE,
                              ![c].pc = CASE cpu[c].op = "v2p" -> "lookup"
                                          [] cpu[c].op = "fault" -> "handle"
                                          [] OTHER -> "loop"]
        /\ shadow' = [mem |-> run.mem, next |-> run.next]
        /\ UNCHANGED <<mem, next, panicked, env, pkru, tlb, ipi, calls, arena>>

\* ROOT_PAGETABLE.lock()
Acquire(c) ==
    /\ Running(c) /\ cpu[c].pc = "lock"
    /\ ~locked
    /\ \E run \in {CallBody(Fresh(shadow), cpu[c])} :
        /\ locked' = TRUE
        /\ cpu' = [cpu EXCEPT ![c].holds = TRUE,
                              ![c].pc = CASE cpu[c].op = "v2p" -> "lookup"
                                          [] cpu[c].op = "fault" -> "handle"
                                          [] OTHER -> "loop"]
        /\ shadow' = [mem |-> run.mem, next |-> run.next]
        /\ UNCHANGED <<mem, next, panicked, env, pkru, tlb, ipi, calls, arena>>

\* a loop that takes the lock per page: the guard is dropped after each page
PageStep_LockPerPage(c) ==
    /\ Running(c) /\ cpu[c].pc = "loop"
    /\ cpu[c].steps < MaxPageSteps
    /\ \E r \in {LoopStep(Fresh([mem |-> mem, next |-> next]), cpu[c])} :
        /\ mem' = r.ws.mem
        /\ next' = r.ws.next
        /\ panicked' = (r.ws.status # "ok")
        /\ cpu' = [cpu EXCEPT ![c] = [r.k EXCEPT !.holds = FALSE,
                                                !.pc = IF r.k.pc = "loop" THEN "lock" ELSE @]]
        /\ locked' = FALSE
        /\ tlb' = [tlb EXCEPT ![c] = Invlpg(@, r.ws.inv)]
        /\ UNCHANGED <<env, pkru, ipi, shadow, calls, arena>>

\* one page of map_pages / unmap_pages
PageStep(c) ==
    /\ Running(c) /\ cpu[c].pc = "loop"
    /\ cpu[c].steps < MaxPageSteps
    /\ \E r \in {LoopStep(Fresh([mem |-> mem, next |-> next]), cpu[c])} :
        /\ mem' = r.ws.mem
        /\ next' = r.ws.next
        /\ panicked' = (r.ws.status # "ok")
        /\ cpu' = [cpu EXCEPT ![c] =
                      [r.k EXCEPT !.stepCached =
                                      IF r.k.steps = cpu[c].steps THEN @
                                      ELSE \E t \in tlb[c] : Covers(t, cpu[c].current)]]
        /\ tlb' = [tlb EXCEPT ![c] = Invlpg(@, r.ws.inv)]
        /\ UNCHANGED <<env, pkru, locked, ipi, shadow, calls, arena>>

\* unmap_pages with the condition of map_pages on its ipi_tlb_flush()
Flush_Gated(c) ==
    LET send == cpu[c].do_ipi /\ cpu[c].send_ipi
    IN  /\ Running(c) /\ cpu[c].pc = "flush"
        /\ ipi' = IF send THEN [d \in CPUS |-> (d \in online /\ d # c) \/ ipi[d]]
                  ELSE ipi
        /\ cpu' = [cpu EXCEPT ![c].pc = "unlock",
                              ![c].ipis = IF send THEN @ + 1 ELSE @]
        /\ UNCHANGED <<mem, next, panicked, env, pkru, locked, tlb, shadow, calls, arena>>

\* after the loop: ipi_tlb_flush(), always for unmap_pages, for map_pages
\* if do_ipi && send_ipi
Flush(c) ==
    LET send == cpu[c].op = "unmap" \/ (cpu[c].do_ipi /\ cpu[c].send_ipi)
    IN  /\ Running(c) /\ cpu[c].pc = "flush"
        /\ ipi' = IF send THEN [d \in CPUS |-> (d \in online /\ d # c) \/ ipi[d]]
                  ELSE ipi
        /\ cpu' = [cpu EXCEPT ![c].pc = "unlock",
                              ![c].ipis = IF send THEN @ + 1 ELSE @]
        /\ UNCHANGED <<mem, next, panicked, env, pkru, locked, tlb, shadow, calls, arena>>

\* the lookup of virt_to_phys
Lookup(c) ==
    /\ Running(c) /\ cpu[c].pc = "lookup"
    /\ \E r \in {virt_to_phys(mem, cpu[c].addr)} :
        /\ panicked' = ~r.ok
        /\ cpu' = [cpu EXCEPT ![c].pc = IF r.ok THEN "unlock" ELSE "panic",
                              ![c].ret = r.phys]
        /\ UNCHANGED <<mem, next, env, pkru, locked, tlb, ipi, shadow, calls, arena>>

\* the locked block of page_fault_handler
FaultStep(c) ==
    /\ Running(c) /\ cpu[c].pc = "handle"
    /\ \E r \in {FaultBody(Fresh([mem |-> mem, next |-> next]), cpu[c])},
          pre \in {get_page_table_entry(mem, ROOT_PAGETABLE, 3, BasePageSize,
                                        cpu[c].current)} :
        /\ mem' = r.mem
        /\ next' = r.next
        /\ panicked' = (r.status # "ok")
        /\ cpu' = [cpu EXCEPT ![c].pc = IF r.status = "ok" THEN "unlock" ELSE "panic",
                              ![c].stepped = TRUE,
                              ![c].stepPage = cpu[c].current,
                              ![c].stepPa = PoolFrame(next),
                              ![c].stepPre = pre.kind = "Some",
                              ![c].nextPre = next,
                              ![c].newTables = MissingTables(mem, cpu[c].current)]
        /\ tlb' = [tlb EXCEPT ![c] = Invlpg(@, r.inv)]
        /\ UNCHANGED <<env, pkru, locked, ipi, shadow, calls, arena>>

\* a guard whose drop leaves the lock taken
Release_NoUnlock(c) ==
    /\ Running(c) /\ cpu[c].pc = "unlock"
    /\ cpu' = [cpu EXCEPT ![c].holds = FALSE, ![c].pc = "return"]
    /\ UNCHANGED <<mem, next, panicked, env, pkru, locked, tlb, ipi, shadow, calls, arena>>

\* the lock guard is dropped at the end of the statement
Release(c) ==
    /\ Running(c) /\ cpu[c].pc = "unlock"
    /\ locked' = FALSE
    /\ cpu' = [cpu EXCEPT ![c].holds = FALSE, ![c].pc = "return"]
    /\ UNCHANGED <<mem, next, panicked, env, pkru, tlb, ipi, shadow, calls, arena>>

\* the call returns
Return(c) ==
    /\ Running(c) /\ cpu[c].pc = "return"
    /\ NoIrqPending(c)
    /\ cpu' = [cpu EXCEPT ![c] = Idle]
    /\ UNCHANGED <<mem, next, panicked, env, pkru, locked, tlb, ipi, shadow, calls, arena>>

\* a CPU that runs task code touches an address: the MMU caches the translation
TlbFill(c, va) ==
    LET w == HwWalk(mem, va)
    IN  /\ Running(c) /\ cpu[c].pc = "idle"
        /\ NoIrqPending(c)
        /\ w.ok
        /\ \A t \in tlb[c] : ~Covers(t, va)
        /\ tlb' = [tlb EXCEPT ![c] = @ \cup {[base |-> w.base, level |-> w.level,
                                             entry |-> w.entry]}]
        /\ UNCHANGED <<mem, next, panicked, env, pkru, locked, cpu, ipi, shadow, calls, arena>>

\* a CPU with interrupts enabled services the flush IPI
IpiFlush(c) ==
    /\ Running(c) /\ IrqOn(c)
    /\ ipi[c]
    /\ ipi' = [ipi EXCEPT ![c] = FALSE]
    /\ tlb' = [tlb EXCEPT ![c] = {}]
    /\ UNCHANGED <<mem, next, panicked, env, pkru, locked, cpu, shadow, calls, arena>>

(***************************************************************************)
(* The region facade (src/mm/mod.rs).  The flag builder, map::<S>,          *)
(* get_page_table_entry::<S> and the two allocators live in files of the    *)
(* kernel that are not part of the sources at hand; they are modelled from  *)
(* the specification (sections 3, 4.3 and 4.5).                             *)
(***************************************************************************)
SAFE_MEM_REGION == 1
UNSAFE_MEM_REGION == 2
SHARED_MEM_REGION == 3

\* PageTableEntryFlags: normal(), writable(), execute_disable(), pkey(key)
normal(flags) == flags \ CACHE_DISABLE
writable(flags) == BitOr(flags, WRITABLE)
execute_disable(flags) == BitOr(flags, EXECUTE_DISABLE)
pkey(flags, key) == BitOr(flags \ (59..62), Shl(FromNat(key), 59))

\* align_up!(sz, BasePageSize::SIZE) that rounds down
align_up_Down(sz) == (sz \div 4096) * 4096

\* align_up!(sz, BasePageSize::SIZE)
align_up(sz) == ((sz + 4095) \div 4096) * 4096

\* the flags with the key of the Safe domain for every keyed domain
RegionFlags_OneKey(domain, xd) ==
    LET base == writable(normal(BLANK))
        keyed == IF domain \in {"Safe", "Unsafe", "Shared"}
                 THEN pkey(base, SAFE_MEM_REGION) ELSE base
    IN  IF xd \/ domain = "IO" THEN execute_disable(keyed) ELSE keyed

\* the flags allocate, unsafe_allocate, shared_allocate, user_allocate and
\* allocate_iomem build for their pages
RegionFlags(domain, xd) ==
    LET base == writable(normal(BLANK))
        keyed == CASE domain = "Safe" -> pkey(base, SAFE_MEM_REGION)
                   [] domain = "Unsafe" -> pkey(base, UNSAFE_MEM_REGION)
                   [] domain = "Shared" -> pkey(base, SHARED_MEM_REGION)
                   [] OTHER -> base
    IN  IF xd \/ domain = "IO" THEN execute_disable(keyed) ELSE keyed

\* The arenas of physicalmem and virtualmem: 0x200_0000 and 0x2_0000_0000
\* upwards, ArenaPages pages each.  allocate(size) returns the lowest range
\* of size bytes that is disjoint from every outstanding one, or an error.
PhysBase == {25}
VirtBase == {33}
ArenaPages == 2

PagesOf(addr, n) == {Add(addr, Shl(FromNat(i), PAGE_BITS)) : i \in 0..(n - 1)}

arena_allocate(base, used, size) ==
    LET n == size \div 4096
        fits == {i \in 0..(ArenaPages - n) :
                    PagesOf(Add(base, Shl(FromNat(i), PAGE_BITS)), n) \cap used = {}}
        low == CHOOSE i \in fits : \A j \in fits : i <= j
    IN  IF n = 0 \/ fits = {} THEN [ok |-> FALSE, addr |-> {}]
        ELSE [ok |-> TRUE, addr |-> Add(base, Shl(FromNat(low), PAGE_BITS))]

arena_deallocate(used, addr, size) == used \ PagesOf(addr, size \div 4096)

\* the body the five allocation functions share: round, allocate both
\* ranges (unwrap), build the flags, map::<BasePageSize>
RegionAllocate(c, fn, domain, sz, xd) ==
    LET size == align_up(sz)
        P == arena_allocate(PhysBase, arena.p, size)
        V == arena_allocate(VirtBase, arena.v, size)
        count == size \div 4096
        r == get_page_range(BasePageSize, V.addr, FromNat(count))
        k == [Idle EXCEPT !.pc = "lock", !.fn = fn, !.op = "map",
                          !.addr = V.addr, !.npages = FromNat(count),
                          !.first = r.first, !.current = r.first, !.last = r.last,
                          !.pa0 = P.addr, !.pa = P.addr,
                          !.flags = RegionFlags(domain, xd),
                          !.domain = domain, !.xd = xd, !.sz = sz, !.ret = V.addr]
    IN  /\ calls < MaxCalls
        /\ NoIrqPending(c)
        /\ calls' = calls + 1
        /\ IF P.ok /\ V.ok /\ r.ok
           THEN /\ cpu' = [cpu EXCEPT ![c] = k]
                /\ arena' = [v |-> arena.v \cup PagesOf(V.addr, count),
                             p |-> arena.p \cup PagesOf(P.addr, count),
                             regions |-> arena.regions \cup
                                 {[va |-> V.addr, pa |-> P.addr, n |-> count]}]
                /\ UNCHANGED panicked
           ELSE KernelPanic(c, k) /\ UNCHANGED arena
        /\ UNCHANGED <<mem, next, env, pkru, locked, tlb, ipi, shadow>>

\* allocate
Allocate(c, sz, xd) ==
    /\ Running(c) /\ cpu[c].pc = "idle"
    /\ RegionAllocate(c, "allocate", "Safe", sz, xd)

\* unsafe_allocate
UnsafeAllocate(c, sz, xd) ==
    /\ Running(c) /\ cpu[c].pc = "idle"
    /\ RegionAllocate(c, "unsafe_allocate", "Unsafe", sz, xd)

\* shared_allocate
SharedAllocate(c, sz, xd) ==
    /\ Running(c) /\ cpu[c].pc = "idle"
    /\ RegionAllocate(c, "shared_allocate", "Shared", sz, xd)

\* user_allocate
UserAllocate(c, sz, xd) ==
    /\ Running(c) /\ cpu[c].pc = "idle"
    /\ RegionAllocate(c, "user_allocate", "User", sz, xd)

\* allocate_iomem
AllocateIomem(c, sz) ==
    /\ Running(c) /\ cpu[c].pc = "idle"
    /\ RegionAllocate(c, "allocate_iomem", "IO", sz, TRUE)

\* deallocate: the entry of the first page gives the physical address; with
\* no entry the function panics
Deallocate(c, virtual_address, sz) ==
    LET size == align_up(sz)
        p == including_address(BasePageSize, virtual_address)
        e == get_page_table_entry(mem, ROOT_PAGETABLE, 3, BasePageSize, p.page)
        region == {r \in arena.regions : r.va = virtual_address}
        k == [Idle EXCEPT !.fn = "deallocate", !.addr = virtual_address,
                          !.first = p.page, !.sz = sz,
                          !.npages = FromNat(size \div 4096),
                          !.stepPre = e.kind = "Some",
                          !.stepPa = address(e.entry),
                          !.pa0 = IF region = {} THEN {}
                                  ELSE (CHOOSE r \in region : TRUE).pa,
                          !.stepped = region # {}]
    IN  /\ Running(c) /\ cpu[c].pc = "idle"
        /\ NoIrqPending(c)
        /\ IF p.ok /\ e.kind = "Some"
           THEN /\ cpu' = [cpu EXCEPT ![c] = [k EXCEPT !.pc = "return"]]
                /\ arena' = [v |-> arena_deallocate(arena.v, virtual_address, size),
                             p |-> arena_deallocate(arena.p, address(e.entry), size),
                             regions |-> arena.regions \ region]
                /\ UNCHANGED panicked
           ELSE KernelPanic(c, k) /\ UNCHANGED arena
        /\ UNCHANGED <<mem, next, env, pkru, locked, tlb, ipi, shadow, calls>>

(***************************************************************************)
(* The protection-key overlay as initd uses it (src/lib.rs).  The mpk       *)
(* module is not part of the sources at hand: mpk_mem_set_key and           *)
(* mpk_set_perm are modelled from the specification (section 4.8), and so   *)
(* is the check the processor makes on an access: the key of the leaf entry *)
(* selects a permission in the PKRU of the accessing CPU.                   *)
(***************************************************************************)
\* the key and the value initd uses
InitdKey == 15
InitdValue == 149

\* bits of the page-fault error code: P, W/R, PK
ErrPresent == {0}
ErrWrite == {1}
ErrPK == {5}

\* the protection key in bits 59..62 of an entry
KeyOf(e) ==
    (IF 59 \in e THEN 1 ELSE 0) + (IF 60 \in e THEN 2 ELSE 0)
        + (IF 61 \in e THEN 4 ELSE 0) + (IF 62 \in e THEN 8 ELSE 0)

\* the present leaf slots of the 4 KiB pages of [V, V + size)
LeafSlots(m, V, size) ==
    {e.slot : e \in {x \in {get_page_table_entry(m, ROOT_PAGETABLE, 3, BasePageSize, p) :
                                  p \in PagesOf(V, size \div 4096)} : x.kind = "Some"}}

\* the entries of the slots with their key replaced
Rekey(m, slots, key) ==
    [x \in DOMAIN m |-> IF x \in slots THEN pkey(m[x], key) ELSE m[x]]

\* initd: one page from virtualmem and one frame from physicalmem, mapped
\* with normal().writable() and USER_ACCESSIBLE; skipped if either is missing
InitdMap(c) ==
    LET P == arena_allocate(PhysBase, arena.p, 4096)
        V == arena_allocate(VirtBase, arena.v, 4096)
        r == get_page_range(BasePageSize, V.addr, FromNat(1))
        k == [Idle EXCEPT !.pc = "lock", !.fn = "initd", !.op = "map",
                          !.addr = V.addr, !.npages = FromNat(1),
                          !.first = r.first, !.current = r.first, !.last = r.last,
                          !.pa0 = P.addr, !.pa = P.addr,
                          !.flags = BitOr(writable(normal(BLANK)), USER_ACCESSIBLE),
                          !.sz = 4096, !.ret = V.addr]
    IN  /\ Running(c) /\ cpu[c].pc = "idle"
        /\ calls < MaxCalls
        /\ NoIrqPending(c)
        /\ calls' = calls + 1
        /\ arena' = [v |-> IF V.ok THEN arena.v \cup {V.addr} ELSE arena.v,
                     p |-> IF P.ok THEN arena.p \cup {P.addr} ELSE arena.p,
                     regions |-> IF V.ok /\ P.ok
                                 THEN arena.regions \cup
                                          {[va |-> V.addr, pa |-> P.addr, n |-> 1]}
                                 ELSE arena.regions]
        /\ IF ~(V.ok /\ P.ok)
           THEN cpu' = [cpu EXCEPT ![c] = [k EXCEPT !.pc = "return", !.op = "none"]]
                    /\ UNCHANGED panicked
           ELSE IF r.ok THEN cpu' = [cpu EXCEPT ![c] = k] /\ UNCHANGED panicked
           ELSE KernelPanic(c, k)
        /\ UNCHANGED <<mem, next, env, pkru, locked, tlb, ipi, shadow>>

\* set_key_on_range that rewrites the key of the first page only
SetKeyOnRange_FirstPage(c, V, size, key) ==
    /\ Running(c) /\ cpu[c].pc = "idle"
    /\ NoIrqPending(c)
    /\ ~locked
    /\ \E slots \in {LeafSlots(mem, V, 4096)} :
        /\ mem' = Rekey(mem, slots, key)
        /\ shadow' = [shadow EXCEPT !.mem = Rekey(@, slots, key)]
    /\ cpu' = [cpu EXCEPT ![c] =
                  [Idle EXCEPT !.pc = "return", !.fn = "set_key_on_range",
                               !.addr = V, !.sz = size, !.key = key]]
    /\ UNCHANGED <<next, panicked, env, pkru, locked, tlb, ipi, calls, arena>>

\* set_key_on_range(V, size, key) (mpk_mem_set_key): bits 59..62 of the leaf
\* entries of the pages of [V, V + size) are rewritten; no TLB flush
SetKeyOnRange(c, V, size, key) ==
    /\ Running(c) /\ cpu[c].pc = "idle"
    /\ NoIrqPending(c)
    /\ ~locked
    /\ \E slots \in {LeafSlots(mem, V, size)} :
        /\ mem' = Rekey(mem, slots, key)
        /\ shadow' = [shadow EXCEPT !.mem = Rekey(@, slots, key)]
    /\ cpu' = [cpu EXCEPT ![c] =
                  [Idle EXCEPT !.pc = "return", !.fn = "set_key_on_range",
                               !.addr = V, !.sz = size, !.key = key]]
    /\ UNCHANGED <<next, panicked, env, pkru, locked, tlb, ipi, calls, arena>>

\* set_permission(key, perm) (mpk_set_perm): the PKRU of the current CPU
SetPermission(c, key, perm) ==
    /\ Running(c) /\ cpu[c].pc = "idle"
    /\ NoIrqPending(c)
    /\ pkru' = [pkru EXCEPT ![c][key] = perm]
    /\ cpu' = [cpu EXCEPT ![c] =
                  [Idle EXCEPT !.pc = "return", !.fn = "set_permission",
                               !.key = key, !.perm = perm]]
    /\ UNCHANGED <<mem, next, panicked, env, locked, tlb, ipi, shadow, calls, arena>>

\* An access of task code to va (initd's *m_ptr = 149 and its read): the
\* key of the leaf entry selects the permission; an access that is not
\* allowed, or to a page that is not present, traps and the kernel stops in
\* the fault handler
Access(c, kind, va) ==
    LET w == HwWalk(mem, va)
        perm == pkru[c][KeyOf(w.entry)]
        denied == perm = "None" \/ (perm = "RO" /\ kind = "write")
        frame == BitAnd(w.phys, BitNot(OffsetMask(BasePageSize)))
        index == table_index(Shl(va, 9), 0)
        k == [Idle EXCEPT !.fn = "access", !.op = kind, !.addr = va,
                          !.key = KeyOf(w.entry), !.perm = perm,
                          !.value = FromNat(InitdValue)]
    IN  /\ Running(c) /\ cpu[c].pc = "idle"
        /\ NoIrqPending(c)
        /\ IF ~w.ok \/ denied
           THEN /\ KernelPanic(c, [k EXCEPT !.err =
                       (IF w.ok THEN BitOr(ErrPresent, ErrPK) ELSE {})
                           \cup (IF kind = "write" THEN ErrWrite ELSE {})])
                /\ UNCHANGED <<mem, shadow>>
           ELSE /\ cpu' = [cpu EXCEPT ![c] =
                             [k EXCEPT !.pc = "return",
                                       !.ret = IF kind = "read"
                                               THEN Read(mem, frame, index) ELSE {}]]
                /\ mem' = IF kind = "write"
                          THEN Write(mem, frame, index, FromNat(InitdValue)) ELSE mem
                /\ shadow' = IF kind = "write"
                             THEN [shadow EXCEPT !.mem = Write(@, frame, index,
                                                               FromNat(InitdValue))]
                             ELSE shadow
                /\ UNCHANGED panicked
        /\ UNCHANGED <<next, env, pkru, locked, tlb, ipi, calls, arena>>

(***************************************************************************)
(* PageFaultError and its Display                                           *)
(***************************************************************************)
PROTECTION_VIOLATION == {1}
WRITE == {2}
USER_MODE == {3}
RESERVED_FIELD == {4}
INSTRUCTION_FETCH == {5}

\* fmt(): the five words printed after the error code
PageFaultErrorFmt(bits) ==
    [mode |-> IF USER_MODE \subseteq bits THEN "user" ELSE "supervisor",
     ty |-> IF INSTRUCTION_FETCH \subseteq bits THEN "instruction" ELSE "data",
     operation |-> IF WRITE \subseteq bits THEN "write"
                   ELSE IF INSTRUCTION_FETCH \subseteq bits THEN "fetch" ELSE "read",
     cause |-> IF PROTECTION_VIOLATION \subseteq bits THEN "protection"
               ELSE "not present",
     reserved |-> IF RESERVED_FIELD \subseteq bits THEN "reserved bit" ELSE ""]

\* PageFaultError { bits: (*s).error } is formatted for the diagnostic
FmtPageFaultError(c, error) ==
    /\ Running(c) /\ cpu[c].pc = "idle"
    /\ cpu' = [cpu EXCEPT ![c] =
                  [Idle EXCEPT !.pc = "return", !.fn = "PageFaultError::fmt",
                               !.err = error, !.diag = PageFaultErrorFmt(error)]]
    /\ UNCHANGED <<mem, next, panicked, env, pkru, locked, tlb, ipi, shadow, calls, arena>>

(***************************************************************************)
(* init_pages_before_kernel (src/mm/mod.rs): the low 2 MiB are mapped onto  *)
(* themselves in 4 KiB pages with key SAFE_MEM_REGION, and the first page   *)
(* is given key 0.  It runs once, before anything else is mapped.           *)
(***************************************************************************)
\* 0x200000 / BasePageSize::SIZE
LowPages == 512
LowPage(i) == Shl(FromNat(i), PAGE_BITS)
LowFlags == pkey(execute_disable(writable(normal(BLANK))), SAFE_MEM_REGION)

\* map::<BasePageSize>(0, 0, count, flags) for the pages lo .. hi - 1, in
\* ascending order (the range is halved to keep the evaluation shallow)
RECURSIVE MapLow(_, _, _)
MapLow(ws, lo, hi) ==
    IF ws.status # "ok" THEN ws
    ELSE IF hi = lo + 1
    THEN map_page(ws, ROOT_PAGETABLE, 3, BasePageSize, LowPage(lo), LowPage(lo), LowFlags)
    ELSE CHOOSE r \in
             {MapLow(w, (lo + hi) \div 2, hi) :
                 w \in {MapLow(ws, lo, (lo + hi) \div 2)}} : TRUE

\* the first statement: the map of the 512 pages
InitPagesBeforeKernel(c) ==
    /\ Running(c) /\ cpu[c].pc = "idle"
    /\ calls = 0 /\ next = 0 /\ ~locked
    /\ \E r \in {MapLow(Fresh([mem |-> mem, next |-> next]), 0, LowPages)} :
        /\ mem' = r.mem
        /\ next' = r.next
        /\ shadow' = [mem |-> r.mem, next |-> r.next]
        /\ panicked' = (r.status # "ok")
        /\ cpu' = [cpu EXCEPT ![c] =
                      [Idle EXCEPT !.pc = IF r.status = "ok" THEN "rekey" ELSE "panic",
                                   !.fn = "init_pages_before_kernel",
                                   !.key = SAFE_MEM_REGION]]
    /\ UNCHANGED <<env, pkru, locked, tlb, ipi, calls, arena>>

\* a re-keying that writes the key alone into the entry
InitPagesRekey_KeyOnly(c) ==
    /\ Running(c) /\ cpu[c].pc = "rekey"
    /\ \E slots \in {LeafSlots(mem, LowPage(0), 4096)} :
        /\ mem' = [x \in DOMAIN mem |-> IF x \in slots THEN BitOr(PRESENT, pkey({}, 0))
                                                        ELSE mem[x]]
        /\ shadow' = [shadow EXCEPT !.mem = Rekey(@, slots, 0)]
    /\ cpu' = [cpu EXCEPT ![c].pc = "return", ![c].key = 0]
    /\ UNCHANGED <<next, panicked, env, pkru, locked, tlb, ipi, calls, arena>>

\* the second statement: set_pkey_on_page_table_entry::<BasePageSize>(0, 1, 0)
InitPagesRekey(c) ==
    /\ Running(c) /\ cpu[c].pc = "rekey"
    /\ \E slots \in {LeafSlots(mem, LowPage(0), 4096)} :
        /\ mem' = Rekey(mem, slots, 0)
        /\ shadow' = [shadow EXCEPT !.mem = Rekey(@, slots, 0)]
    /\ cpu' = [cpu EXCEPT ![c].pc = "return", ![c].key = 0]
    /\ UNCHANGED <<next, panicked, env, pkru, locked, tlb, ipi, calls, arena>>

(***************************************************************************)
(* Functions applied alone to a value                                       *)
(***************************************************************************)
\* Page::is_valid_address(virtual_address); the result is kept in ret (1 or 0)
IsValidAddress(c, virtual_address) ==
    /\ Running(c) /\ cpu[c].pc = "idle"
    /\ cpu' = [cpu EXCEPT ![c] =
                  [Idle EXCEPT !.pc = "return", !.fn = "is_valid_address",
                               !.addr = virtual_address,
                               !.ret = IF is_valid_address(virtual_address)
                                       THEN FromNat(1) ELSE {}]]
    /\ UNCHANGED <<mem, next, panicked, env, pkru, locked, tlb, ipi, shadow, calls, arena>>

(***************************************************************************)
(* Initial states and specifications                                        *)
(***************************************************************************)
\* get_pages hands out frames that were used before: each holds stale words
StaleEntry == BitOr({16}, BitOr(PRESENT, WRITABLE))
StaleWord == {17}
Stale ==
    [x \in {<<f, i>> : f \in PoolFrames, i \in {0, 1, 2}} |->
        IF x[2] = 2 THEN StaleWord ELSE StaleEntry]
BootMem ==
    [x \in DOMAIN Stale \cup {<<RootFrame, SelfMapIndex>>} |->
        IF x = <<RootFrame, SelfMapIndex>> THEN SelfMapEntry ELSE Stale[x]]

InitWith(cpus, profiles, hooks) ==
    /\ mem = BootMem
    /\ shadow = [mem |-> BootMem, next |-> 0]
    /\ next = 0
    /\ panicked = FALSE
    /\ wrapping \in profiles
    /\ zero_pages \in hooks
    /\ online = cpus
    /\ locked = FALSE
    /\ cpu = [c \in CPUS |-> Idle]
    /\ tlb = [c \in CPUS |-> {}]
    /\ ipi = [c \in CPUS |-> FALSE]
    /\ calls = 0
    /\ arena = [v |-> {}, p |-> {}, regions |-> {}]
    /\ pkru = [c \in CPUS |-> [k \in 0..15 |-> "RW"]]

\* virtual addresses: 0x1_0000_0000, its neighbour page, the kernel start,
\* the last page of the address space
V1 == {32}
V1b == {32, 12}
VK == kernel_start
VTop == 12..63

\* 0x7FFF_FFFF_F000, the last page below the canonical gap, and the number of
\* 4 KiB pages from it to 0xFFFF_8000_0000_0000 (0xF_FFF0_0000_0002)
VGapLow == 12..46
NAcrossGap == (36..51) \cup {1}

\* 0x4000_0800 and 0x4000_1000 (not aligned to 4 KiB, to 2 MiB) and
\* 0x100_0000_0000 (wider than the physical addresses of the CPU)
BadFrames == {{30, 11}, {30, 12}, {PhysicalAddressBits}}

\* The walker alone, on one CPU, for the three page sizes.
MapInputs ==
    (PageSizes \X {V1, VTop} \X {{30}} \X {FromNat(1)} \X {WRITABLE} \X {FALSE})
        \cup ({BasePageSize} \X {V1} \X {{21, 16}} \X {FromNat(1), FromNat(2)}
                 \X {EXECUTE_DISABLE} \X {TRUE})
        \cup ({BasePageSize, LargePageSize} \X {VK} \X {{22}} \X {FromNat(1)}
                 \X {WRITABLE} \X {FALSE})
        \cup ({BasePageSize} \X {VGapLow} \X {{30}} \X {NAcrossGap} \X {WRITABLE}
                 \X {FALSE})
        \cup {<<HugePageSize, V1, {21}, FromNat(1), WRITABLE, FALSE>>,
               <<BasePageSize, V1, {21}, FromNat(1), BitOr(WRITABLE, HUGE_PAGE), FALSE>>}
        \cup ({BasePageSize, LargePageSize} \X {V1} \X BadFrames \X {FromNat(1)}
                 \X {WRITABLE} \X {FALSE})
UnmapInputs ==
    (PageSizes \X {V1} \X {FromNat(1)})
        \cup ({BasePageSize} \X {VTop} \X {FromNat(1)})
        \cup ({BasePageSize} \X {V1} \X {FromNat(0), FromNat(2)})

Init == InitWith({0}, BOOLEAN, {FALSE})

Next ==
    \E c \in CPUS :
        \/ \E i \in MapInputs : PageMap(c, i[1], i[2], i[3], i[4], i[5], i[6])
        \/ \E i \in UnmapInputs : PageUnmap(c, i[1], i[2], i[3])
        \/ Acquire(c)
        \/ PageStep(c)
        \/ Flush(c)
        \/ Release(c)
        \/ Return(c)

Spec == Init /\ [][Next]_vars

\* The exported entry points on two CPUs, with their TLBs.
SmpMapInputs ==
    {<<V1, {21}, FromNat(2), WRITABLE, TRUE>>,
     <<V1, {21, 16}, FromNat(1), WRITABLE, FALSE>>,
     <<V1b, {21, 16}, FromNat(1), BitOr(WRITABLE, {13, 59}), TRUE>>,
     <<V1, {21}, FromNat(0), WRITABLE, FALSE>>}
SmpUnmapInputs == {<<V1, FromNat(2)>>, <<V1b, FromNat(1)>>, <<V1, FromNat(0)>>}
\* translated: 0x1_0000_1ABC
SmpAddrs == {BitOr(V1b, FromNat(2748))}
\* faults at 0xA000_1234, 0xB000_0000 and heap.end in a task with a heap, and
\* at 0xA000_1234 in a task without one
SmpFaults ==
    ({TaskHeap} \X {{31, 29, 12, 9, 5, 4, 2}, {31, 29, 28}, HeapEnd})
        \cup ({NoHeap} \X {{31, 29, 12, 9, 5, 4, 2}})

InitSMP == InitWith(CPUS, {TRUE}, BOOLEAN)

NextSMP ==
    \E c \in CPUS :
        \/ \E i \in SmpMapInputs : PageMap(c, BasePageSize, i[1], i[2], i[3], i[4], i[5])
        \/ \E i \in SmpUnmapInputs : PageUnmap(c, BasePageSize, i[1], i[2])
        \/ \E a \in SmpAddrs : VirtToPhys(c, a)
        \/ \E a \in SmpFaults : PageFault(c, a[1], a[2])
        \/ MapCmdline(c)
        \/ Acquire(c)
        \/ PageStep(c)
        \/ Flush(c)
        \/ Lookup(c)
        \/ FaultStep(c)
        \/ Release(c)
        \/ Return(c)
        \/ \E v \in {V1} : TlbFill(c, v)
        \/ IpiFlush(c)

SpecSMP == InitSMP /\ [][NextSMP]_vars

\* The entry points that take the root lock, on two CPUs, with the steps of a
\* CPU that holds the lock taken sooner or later and with a lock that no
\* waiting CPU is kept out of for ever.
LiveMapInputs == {<<V1, {21}, FromNat(2), WRITABLE, TRUE>>}
LiveUnmapInputs == {<<V1, FromNat(1)>>}
LiveFaults == {<<TaskHeap, {31, 29, 12, 9, 5, 4, 2}>>}
\* command lines: 0x21_0800 of 4096 bytes and of none, 0x21_0000 of 4096
\* bytes, 0x21_0FFF of 2 bytes
CmdInputs == {<<cmdline, cmdsize>>, <<cmdline, {}>>, <<{21, 16}, {12}>>,
              <<{21, 16} \cup (0..11), {1}>>}

InitLive == InitWith(CPUS, {TRUE}, {FALSE})

NextLive ==
    \E c \in CPUS :
        \/ \E i \in LiveMapInputs : PageMap(c, BasePageSize, i[1], i[2], i[3], i[4], i[5])
        \/ \E i \in LiveUnmapInputs : PageUnmap(c, BasePageSize, i[1], i[2])
        \/ \E a \in SmpAddrs : VirtToPhys(c, a)
        \/ \E a \in LiveFaults : PageFault(c, a[1], a[2])
        \/ \E a \in CmdInputs : MapCmdlineWith(c, a[1], a[2])
        \/ Acquire(c)
        \/ PageStep(c)
        \/ Flush(c)
        \/ Lookup(c)
        \/ FaultStep(c)
        \/ Release(c)
        \/ Return(c)
        \/ IpiFlush(c)

\* A CPU that holds the lock goes on running (weak fairness of its steps),
\* and a CPU that finds the lock free again and again gets it (strong
\* fairness of lock()).  For PageStep, Lookup, FaultStep and Acquire the
\* fairness condition is written out with the guard of the action as its
\* enabling condition.
Moves(c, pc) == cpu[c].pc = pc /\ cpu'[c] # cpu[c]
CanStep(c, pc) ==
    /\ Running(c) /\ cpu[c].pc = pc
    /\ pc = "loop" => cpu[c].steps < MaxPageSteps
    /\ pc = "lock" => ~locked
Fairness ==
    \A c \in CPUS :
        /\ WF_vars(Flush(c)) /\ WF_vars(Release(c))
        /\ \A pc \in {"loop", "lookup", "handle"} :
               <>[]CanStep(c, pc) => []<><<Moves(c, pc)>>_vars
        /\ []<>CanStep(c, "lock") => []<><<Moves(c, "lock")>>_vars

SpecLive == InitLive /\ [][NextLive]_vars /\ Fairness

\* The region facade on one CPU: sizes of one byte, one page and one page
\* and a byte, with and without execute_disable.
SafeInputs == {<<1, TRUE>>, <<4097, FALSE>>}
UnsafeInputs == {<<4096, TRUE>>, <<1, FALSE>>}
SharedInputs == {<<4096, TRUE>>, <<1, FALSE>>}
UserInputs == {<<4096, TRUE>>, <<4097, FALSE>>}
IomemInputs == {4096}
RegionUnmapInputs == {<<VirtBase, FromNat(1)>>, <<VirtBase, FromNat(2)>>}
DeallocateInputs == {<<VirtBase, 4096>>, <<VirtBase, 4097>>}

InitMM == InitWith({0}, BOOLEAN, {FALSE})

NextMM ==
    \E c \in CPUS :
        \/ \E i \in SafeInputs : Allocate(c, i[1], i[2])
        \/ \E i \in UnsafeInputs : UnsafeAllocate(c, i[1], i[2])
        \/ \E i \in SharedInputs : SharedAllocate(c, i[1], i[2])
        \/ \E i \in UserInputs : UserAllocate(c, i[1], i[2])
        \/ \E i \in IomemInputs : AllocateIomem(c, i)
        \/ \E i \in RegionUnmapInputs : PageUnmap(c, BasePageSize, i[1], i[2])
        \/ \E i \in DeallocateInputs : Deallocate(c, i[1], i[2])
        \/ Acquire(c)
        \/ PageStep(c)
        \/ Flush(c)
        \/ Release(c)
        \/ Return(c)

SpecMM == InitMM /\ [][NextMM]_vars

\* The protection keys on one CPU: the page of initd or a region of two
\* pages, then set_key_on_range, set_permission and accesses in any order.
MpkRegionInputs == {<<4097, FALSE>>}
MpkRanges == {<<VirtBase, 4096>>, <<VirtBase, 8192>>}
MpkPerms == {"RW", "RO", "None"}
MpkAddrs == {VirtBase, BitOr(VirtBase, {12})}

InitMPK == InitWith({0}, {TRUE}, {FALSE})

NextMPK ==
    \E c \in CPUS :
        \/ InitPagesBeforeKernel(c)
        \/ InitPagesRekey(c)
        \/ InitdMap(c)
        \/ \E i \in MpkRegionInputs : UserAllocate(c, i[1], i[2])
        \/ \E i \in MpkRanges : SetKeyOnRange(c, i[1], i[2], InitdKey)
        \/ \E p \in MpkPerms : SetPermission(c, InitdKey, p)
        \/ \E kind \in {"read", "write"} : \E a \in MpkAddrs : Access(c, kind, a)
        \/ Acquire(c)
        \/ PageStep(c)
        \/ Flush(c)
        \/ Release(c)
        \/ Return(c)

SpecMPK == InitMPK /\ [][NextMPK]_vars

\* The functions alone.  Addresses: one bit set, the bits from one position
\* upwards, the bits up to one position, and the sixteen bits above bit 47
\* set but one, with bit 47 set or clear.
AddrInputs ==
    {{k} : k \in WordBits} \cup {k..63 : k \in WordBits} \cup {0..k : k \in WordBits}
        \cup {(48..63) \ {k} : k \in 48..63} \cup {(47..63) \ {k} : k \in 48..63}
        \cup {{}, (0..46) \cup (48..63)}

\* the error codes the processor pushes: bits 0..5 of the word
ErrorCodes == SUBSET (0..5)

InitUnit == InitWith({0}, {TRUE}, {FALSE})

NextUnit ==
    \E c \in CPUS :
        \/ \E a \in AddrInputs : IsValidAddress(c, a)
        \/ \E error \in ErrorCodes : FmtPageFaultError(c, error)
        \/ Return(c)

SpecUnit == InitUnit /\ [][NextUnit]_vars

(***************************************************************************)
(* Properties                                                               *)
(***************************************************************************)
\* the i-th page of the range of the call k, and the address it is mapped to
PageOf(k, i) == Add(k.first, Shl(FromNat(i), k.S.SizeBit))
PhysOf(k, i) == Add(k.pa0, Shl(FromNat(i), k.S.SizeBit))
lookup(S, page) == get_page_table_entry(mem, ROOT_PAGETABLE, 3, S, page)

\* a map (an unmap) whose loop has run to its end, the lock still held
Mapped(c) == cpu[c].op = "map" /\ cpu[c].pc = "unlock"
Unmapped(c) == cpu[c].op = "unmap" /\ cpu[c].pc = "unlock"

\* a single-page map (unmap) has just been done by the loop of the call
MapStepped(c) ==
    cpu[c].op = "map" /\ cpu[c].stepped /\ cpu[c].pc \in {"loop", "flush", "unlock"}
UnmapStepped(c) ==
    cpu[c].op = "unmap" /\ cpu[c].stepped /\ cpu[c].pc \in {"loop", "flush", "unlock"}

\* the page of size S whose leaf slot is entry 511 of the root table
SelfMapPage(S) == BitAnd(ROOT_PAGETABLE, BitNot(OffsetMask(S)))

\* lookup<S>(page) is a present entry with address() = pa and with the bits
\* of flags, PRESENT, ACCESSED and DIRTY
MappedEntry(S, page, pa, flags) ==
    LET e == lookup(S, page)
    IN  /\ e.kind = "Some"
        /\ is_present(e.entry)
        /\ address(e.entry) = pa
        /\ BitOr(flags, BitOr(PRESENT, BitOr(ACCESSED, DIRTY))) \subseteq e.entry

Offsets(S) == {k \in {{}, FromNat(2748), {20}, OffsetMask(S)} : Lt(k, SIZE(S))}

\* C3: after map<S>(V, P, F) with P aligned to S::SIZE, virt_to_phys(V + k)
\* is P + k for every 0 <= k < S::SIZE, for the three page sizes, inside and
\* outside the kernel range
C3_TranslateAfterMap ==
    \A c \in CPUS : (Mapped(c) /\ BitAnd(cpu[c].pa0, OffsetMask(cpu[c].S)) = {}) =>
        \A i \in 0..(cpu[c].steps - 1) : \A k \in Offsets(cpu[c].S) :
            LET r == virt_to_phys(mem, Add(PageOf(cpu[c], i), k))
            IN  r.ok /\ r.phys = Add(PhysOf(cpu[c], i), k)

\* C4: entry 511 of the root table keeps its initial value: present and
\* pointing at the root table
C4_SelfMapKept == Read(mem, RootFrame, SelfMapIndex) = SelfMapEntry

\* C5: a single-page map returns replaced = TRUE exactly when the leaf slot
\* of the page was present before it, and the replaced slot then holds the
\* new physical address
C5_ReplacedIffPresent ==
    \A c \in CPUS :
        MapStepped(c) =>
            /\ cpu[c].stepRet = cpu[c].stepPre
            /\ cpu[c].stepRet =>
                   address(Read(mem, cpu[c].stepSlot[1], cpu[c].stepSlot[2])) = cpu[c].stepPa

\* a map has replaced a present entry
C5_Witness ==
    \E c \in CPUS : cpu[c].op = "map" /\ cpu[c].stepped /\ cpu[c].stepRet
                      /\ cpu[c].pc = "flush"

\* the calls that hold or are about to release the root lock
InLock(c) == cpu[c].pc \in {"loop", "lookup", "handle", "flush", "unlock"}

\* C6: at most one CPU holds the root lock, and a CPU that is at a read or a
\* write of a page-table entry in __page_map, page_unmap, virt_to_phys,
\* map_cmdline or the heap branch of page_fault_handler holds it
C6_MutualExclusion ==
    /\ \A c, d \in CPUS : (cpu[c].holds /\ cpu[d].holds) => c = d
    /\ \A c \in CPUS : InLock(c) => (cpu[c].holds /\ locked)
    /\ \A c \in CPUS : cpu[c].holds => InLock(c) \/ cpu[c].pc = "panic"

\* a CPU waits for the lock while the other is inside a two-page loop
C6_Witness ==
    \E c, d \in CPUS :
        /\ cpu[c].pc = "loop" /\ cpu[c].steps = 1 /\ Le(cpu[c].current, cpu[c].last)
        /\ cpu[d].pc = "lock"

\* C7: whole calls are atomic: whenever the lock is free the page tables are
\* those of the calls run one after another in the order they took the lock,
\* and a lookup (virt_to_phys) on a CPU reads only such a state
C7_Serializable ==
    /\ (~locked /\ ~panicked) => (mem = shadow.mem /\ next = shadow.next)
    /\ \A c \in CPUS :
           (cpu[c].pc \in {"lookup", "unlock"} /\ ~panicked) => mem = shadow.mem

\* a lookup waits on one CPU while the other has mapped or unmapped one page
\* of two
C7_Witness ==
    \E c, d \in CPUS :
        /\ cpu[c].pc = "loop" /\ cpu[c].steps = 1 /\ cpu[c].npages = FromNat(2)
        /\ cpu[d].pc = "lock" /\ cpu[d].op = "v2p"

\* C8 as stated: every page_unmap call that returns has issued the TLB-flush
\* broadcast
C8_EveryUnmapBroadcasts ==
    \A c \in CPUS :
        (cpu[c].fn = "page_unmap" /\ cpu[c].pc = "return") => cpu[c].ipis = 1

\* C8, amended: every page_unmap call with npages > 0 clears the leaf entry
\* of each page, invalidates each page in the caller's TLB and issues the
\* broadcast once, after the last page and before the lock is released
C8_UnmapBroadcasts ==
    \A c \in CPUS : (cpu[c].fn = "page_unmap" /\ cpu[c].npages # {}) =>
        /\ cpu[c].pc \in {"lock", "loop", "flush"} => cpu[c].ipis = 0
        /\ cpu[c].pc \in {"unlock", "return"} =>
               cpu[c].ipis = 1 /\ FromNat(cpu[c].steps) = cpu[c].npages
        /\ cpu[c].pc = "unlock" =>
               /\ cpu[c].holds
               /\ \A i \in 0..(cpu[c].steps - 1) :
                      /\ lookup(BasePageSize, PageOf(cpu[c], i)).kind = "None"
                      /\ \A t \in tlb[c] : ~Covers(t, PageOf(cpu[c], i))

\* a two-page page_unmap is about to release the lock
C8_Witness ==
    \E c \in CPUS : cpu[c].fn = "page_unmap" /\ cpu[c].pc = "unlock"
                      /\ cpu[c].npages = FromNat(2) /\ cpu[c].stepPre

\* C9: a range map issues the flush IPI exactly when do_ipi is set and a page
\* of the range replaced a present entry: once, after the last page is
\* written and before the call returns; otherwise never
C9_MapBroadcasts ==
    \A c \in CPUS : cpu[c].op = "map" =>
        /\ cpu[c].pc \in {"lock", "loop", "flush"} => cpu[c].ipis = 0
        /\ cpu[c].pc \in {"unlock", "return"} =>
               /\ ~Le(cpu[c].current, cpu[c].last)
               /\ cpu[c].ipis = IF cpu[c].do_ipi /\ cpu[c].anyPre THEN 1 ELSE 0

\* a two-page map with do_ipi has replaced its first page only
C9_Witness ==
    \E c \in CPUS : Mapped(c) /\ cpu[c].do_ipi /\ cpu[c].anyPre
                      /\ ~cpu[c].stepPre /\ cpu[c].steps = 2

\* C10: when a map or unmap call returns, the TLB of its CPU caches no
\* translation of a page of the range that differs from the page's entry
C10_LocalTlbCoherent ==
    \A c \in CPUS :
        (cpu[c].op \in {"map", "unmap"} /\ cpu[c].pc = "return" /\ NoIrqPending(c)) =>
            \A i \in 0..(cpu[c].steps - 1) : \A t \in tlb[c] :
                Covers(t, PageOf(cpu[c], i)) =>
                    LET w == HwWalk(mem, PageOf(cpu[c], i))
                    IN  w.ok /\ w.entry = t.entry /\ w.level = t.level

\* a map that replaced a page its CPU had cached returns
C10_Witness ==
    \E c \in CPUS : cpu[c].op = "map" /\ cpu[c].pc = "return" /\ cpu[c].stepRet
                      /\ cpu[c].stepCached /\ NoIrqPending(c)

\* a page_fault_handler call whose locked block has run
FaultHandled(c) == cpu[c].fn = "page_fault_handler" /\ cpu[c].pc \in {"unlock", "return"}

\* C11: a fault at V with heap.start <= V < heap.end in a task with a heap
\* never panics and sends no IPI; if the 4 KiB page of V was absent the
\* handler obtains one frame for it (besides the page tables map_page has to
\* create) and maps the page to that frame with WRITABLE and EXECUTE_DISABLE,
\* so that the lookup of V is present; if the page was present the handler
\* changes no entry and obtains no frame
C11_HeapFault ==
    /\ [](\A c \in CPUS :
            (/\ cpu[c].fn = "page_fault_handler"
             /\ ~cpu[c].heap.null
             /\ Le(cpu[c].heap.start, cpu[c].addr)
             /\ Lt(cpu[c].addr, cpu[c].heap.end)) =>
                /\ cpu[c].pc # "panic" /\ cpu[c].ipis = 0 /\ cpu[c].eoi = 0
                /\ (FaultHandled(c) /\ cpu[c].holds /\ ~cpu[c].stepPre) =>
                       /\ MappedEntry(BasePageSize, cpu[c].stepPage, cpu[c].stepPa,
                                      BitOr(WRITABLE, EXECUTE_DISABLE))
                       /\ HwWalk(mem, cpu[c].addr).ok
                       /\ next = cpu[c].nextPre + 1 + cpu[c].newTables
                /\ (FaultHandled(c) /\ cpu[c].holds /\ cpu[c].stepPre) =>
                       next = cpu[c].nextPre)
    /\ [][\A c \in CPUS :
             (/\ cpu[c].pc = "handle"
              /\ lookup(BasePageSize, cpu[c].current).kind = "Some") =>
                 (mem' = mem /\ next' = next /\ ipi' = ipi)]_vars

\* a fault on an absent heap page has been served, with no page table on the
\* way to its slot
C11_Witness ==
    \E c \in CPUS : FaultHandled(c) /\ cpu[c].pc = "return" /\ ~cpu[c].stepPre
                      /\ cpu[c].newTables = 3

\* C12: a fault at V in a task without a heap, or with V < heap.start or
\* V >= heap.end, modifies no page-table entry, obtains no frame, does not
\* take the root lock, calls apic_eoi() once and panics; the handler never
\* returns
C12_FaultOutsideHeap ==
    /\ [](\A c \in CPUS :
            (/\ cpu[c].fn = "page_fault_handler"
             /\ \/ cpu[c].heap.null
                \/ Lt(cpu[c].addr, cpu[c].heap.start)
                \/ Le(cpu[c].heap.end, cpu[c].addr)) =>
                (cpu[c].pc = "panic" /\ panicked /\ cpu[c].eoi = 1 /\ ~cpu[c].holds))
    /\ [][\A c \in CPUS :
             /\ (cpu[c].pc = "idle" /\ cpu'[c].fn = "page_fault_handler"
                    /\ cpu'[c].pc = "panic") =>
                    (mem' = mem /\ next' = next /\ locked' = locked /\ ipi' = ipi)
             /\ cpu[c].pc = "panic" => cpu'[c].pc = "panic"]_vars

\* a fault at heap.end has ended in a panic
C12_Witness ==
    \E c \in CPUS : cpu[c].fn = "page_fault_handler" /\ cpu[c].pc = "panic"
                      /\ cpu[c].addr = cpu[c].heap.end /\ cpu[c].eoi = 1

\* the frame holds only zero words
ZeroFilled(frame) == \A x \in DOMAIN mem : x[1] # frame

\* C13 as stated: after every fault on an unmapped page of the heap the frame
\* the handler installed is zero-filled
C13_InstalledFrameZeroed ==
    \A c \in CPUS :
        (FaultHandled(c) /\ cpu[c].holds /\ ~cpu[c].stepPre) => ZeroFilled(cpu[c].stepPa)

\* C13, amended: the installed frame is zero-filled when runtime_osinit is
\* not null (the frame then comes from get_zeroed_page())
C13_InstalledFrameZeroedWithHook ==
    \A c \in CPUS :
        (FaultHandled(c) /\ cpu[c].holds /\ ~cpu[c].stepPre /\ zero_pages) =>
            /\ ZeroFilled(cpu[c].stepPa)
            /\ HwWalk(mem, cpu[c].addr).ok
            /\ HwFrame(HwWalk(mem, cpu[c].addr).entry) = cpu[c].stepPa

\* a fault on an unmapped heap page has been served with runtime_osinit set
C13_Witness ==
    \E c \in CPUS : FaultHandled(c) /\ cpu[c].holds /\ ~cpu[c].stepPre /\ zero_pages

\* C14: every __page_map(V, phys, npages, bits, do_ipi) returns 0 after it
\* has written the leaf entries of the npages pages from the page of V, the
\* i-th mapped to phys + i * 4096 (seen before the lock is released)
C14_PageMapWritesRange ==
    \A c \in CPUS : cpu[c].fn = "__page_map" =>
        /\ cpu[c].pc # "panic"
        /\ cpu[c].pc \in {"unlock", "return"} =>
               FromNat(cpu[c].steps) = cpu[c].npages /\ cpu[c].ret = {}
        /\ cpu[c].pc = "unlock" =>
               \A i \in 0..(cpu[c].steps - 1) :
                   LET e == lookup(BasePageSize, PageOf(cpu[c], i))
                   IN  e.kind = "Some" /\ address(e.entry) = PhysOf(cpu[c], i)

\* the flag bits __page_map recognises according to the claim: the ten flags
\* and the protection key in bits 59..62
RecognisedBits == AllFlags \cup (59..62)

\* C15: the leaf entry written by __page_map is the physical address with
\* PRESENT, ACCESSED, DIRTY and the caller's bits restricted to the ten flags
\* and the protection key (bits 59..62); every other bit of bits is dropped
C15_KeyBitsStored ==
    \A c \in CPUS :
        (cpu[c].fn = "__page_map" /\ MapStepped(c) /\ cpu[c].S = BasePageSize) =>
            LET e == lookup(BasePageSize, cpu[c].stepPage)
            IN  /\ e.kind = "Some"
                /\ e.entry = BitOr(cpu[c].stepPa,
                                   BitOr(BitOr(PRESENT, BitOr(ACCESSED, DIRTY)),
                                         BitAnd(cpu[c].bits, RecognisedBits)))

\* C20: no map or unmap operates on a page of the canonical gap
\* [0x8000_0000_0000, 0xFFFF_8000_0000_0000): a call whose range holds such a
\* page, also an interior one, is rejected before an entry is modified
C20_NoGapPage ==
    \A c \in CPUS :
        (cpu[c].op \in {"map", "unmap"} /\ cpu[c].stepped) =>
            is_valid_address(cpu[c].stepPage)

\* a call of one of the five allocation functions of the facade
Region(c) == cpu[c].domain # "none"

\* the protection key of a domain
DomainKey(domain) ==
    CASE domain = "Safe" -> 1 [] domain = "Unsafe" -> 2 [] domain = "Shared" -> 3
      [] OTHER -> 0

\* C16: every page of a region is WRITABLE and carries the key of its domain
\* in bits 59..62 (Safe 1, Unsafe 2, Shared 3, IO 0, User 0); EXECUTE_DISABLE
\* is set exactly when the caller asked for it, and always for IO
C16_RegionKeys ==
    \A c \in CPUS : (Region(c) /\ Mapped(c)) =>
        /\ cpu[c].steps >= 1
        /\ \A i \in 0..(cpu[c].steps - 1) :
               LET e == lookup(BasePageSize, PageOf(cpu[c], i))
               IN  /\ e.kind = "Some"
                   /\ WRITABLE \subseteq e.entry
                   /\ BitAnd(e.entry, 59..62) = Shl(FromNat(DomainKey(cpu[c].domain)), 59)
                   /\ (EXECUTE_DISABLE \subseteq e.entry)
                          = (cpu[c].xd \/ cpu[c].domain = "IO")

\* a region of the Shared domain without execute_disable has been mapped
C16_Witness ==
    \E c \in CPUS : Region(c) /\ Mapped(c) /\ cpu[c].domain = "Shared" /\ ~cpu[c].xd

\* C17: USER_ACCESSIBLE is set on every page of a region of the User domain
\* and on no page of a region of the other domains
C17_UserBit ==
    \A c \in CPUS : (Region(c) /\ Mapped(c)) =>
        \A i \in 0..(cpu[c].steps - 1) :
            LET e == lookup(BasePageSize, PageOf(cpu[c], i))
            IN  e.kind = "Some"
                /\ (USER_ACCESSIBLE \subseteq e.entry) = (cpu[c].domain = "User")

\* the number of 4 KiB pages that hold sz bytes
RoundedPages(sz) == CHOOSE n \in 0..8 : n * 4096 >= sz /\ (n - 1) * 4096 < sz

\* pages in and around the virtual arena, and 0x1_0000_0000
ProbePages == PagesOf(VirtBase, ArenaPages + 1) \cup {V1}

\* C18: an allocation of sz bytes maps the pages of sz rounded up to 4 KiB,
\* one virtual range V onto one physical range P, so that virt_to_phys(V + k)
\* is P + k for every k below the rounded size; no page outside the range is
\* changed (stated for allocate, checked for the five functions)
C18_AllocateMapsRegion ==
    /\ [](\A c \in CPUS : (Region(c) /\ Mapped(c)) =>
            /\ cpu[c].steps = RoundedPages(cpu[c].sz)
            /\ cpu[c].npages = FromNat(RoundedPages(cpu[c].sz))
            /\ PagesOf(cpu[c].addr, cpu[c].steps) \subseteq arena.v
            /\ PagesOf(cpu[c].pa0, cpu[c].steps) \subseteq arena.p
            /\ \A i \in 0..(cpu[c].steps - 1) : \A k \in Offsets(BasePageSize) :
                   LET r == virt_to_phys(mem, Add(PageOf(cpu[c], i), k))
                   IN  r.ok /\ r.phys = Add(PhysOf(cpu[c], i), k))
    /\ [][\A c \in CPUS : (Region(c) /\ cpu[c].pc \in {"lock", "loop", "flush", "unlock"}) =>
             \A q \in ProbePages \ PagesOf(cpu[c].addr, RoundedPages(cpu[c].sz)) :
                 get_page_table_entry(mem', ROOT_PAGETABLE, 3, BasePageSize, q)
                     = get_page_table_entry(mem, ROOT_PAGETABLE, 3, BasePageSize, q)]_vars

\* allocate(4097, ..) has mapped two pages while another region exists
C18_Witness ==
    \E c \in CPUS : Region(c) /\ Mapped(c) /\ cpu[c].fn = "allocate"
                      /\ cpu[c].sz = 4097 /\ cpu[c].steps = 2

\* a deallocate call for a region that was allocated and not deallocated yet
Deallocating(c) == cpu[c].fn = "deallocate" /\ cpu[c].stepped

\* the number of pages of the size a deallocate call was given
DeallocPages(c) == RoundedPages(cpu[c].sz)

\* C19: when the region was unmapped first, deallocate(V, size) obtains the
\* physical address and releases the virtual and the physical range
C19_UnmapThenDeallocate ==
    \A c \in CPUS : (Deallocating(c) /\ ~cpu[c].stepPre) =>
        /\ cpu[c].pc = "return"
        /\ PagesOf(cpu[c].addr, DeallocPages(c)) \cap arena.v = {}
        /\ PagesOf(cpu[c].pa0, DeallocPages(c)) \cap arena.p = {}

\* the level (3 to 0) of the first entry that is not present on the walk of
\* the tables for va, 4 if the entries of the four levels are present
AbsentLevel(m, va) ==
    LET e3 == Read(m, RootFrame, table_index(va, 3))
        e2 == Read(m, HwFrame(e3), table_index(va, 2))
        e1 == Read(m, HwFrame(e2), table_index(va, 1))
        e0 == Read(m, HwFrame(e1), table_index(va, 0))
    IN  IF PRESENT \cap e3 = {} THEN 3 ELSE IF PRESENT \cap e2 = {} THEN 2
        ELSE IF PRESENT \cap e1 = {} THEN 1 ELSE IF PRESENT \cap e0 = {} THEN 0
        ELSE 4

C22_IteratorYieldsRange ==
    \A c \in CPUS : (cpu[c].op \in {"map", "unmap"} /\ cpu[c].holds) =>
        /\ cpu[c].stepped =>
               /\ cpu[c].stepPage = PageOf(cpu[c], cpu[c].steps - 1)
               /\ Le(cpu[c].stepPage, cpu[c].last)
        /\ (cpu[c].pc = "loop" /\ cpu[c].stepped /\ cpu[c].stepPage = cpu[c].last) =>
               ~Le(cpu[c].current, cpu[c].last)
        /\ cpu[c].pc \in {"flush", "unlock"} =>
               cpu[c].stepped /\ cpu[c].stepPage = cpu[c].last

\* the non-zero words of the frame in memory m
WordsOf(m, frame) == {x \in DOMAIN m : x[1] = frame}

\* C23: when a single-page map that created intermediate tables returns,
\* each new table (the allocated frame) holds exactly one non-zero entry, the
\* one on the path of the mapped page, whatever the frame held before
C23_NewTableZeroed ==
    [][\A c \in CPUS :
          (/\ cpu[c].pc = "loop" /\ cpu[c].op = "map"
           /\ cpu'[c].steps = cpu[c].steps + 1) =>
              \A k \in next..(next' - 1) :
                  \E L \in 0..2 :
                      WordsOf(mem', PoolFrame(k))
                          = {<<PoolFrame(k), table_index(cpu[c].current, L)>>}]_vars

\* bits 48..63 of the address all equal bit 47
Canonical(va) == \A i \in 48..63 : (i \in va) = (47 \in va)

\* C24: is_valid_address(V) is true exactly for the canonical addresses V
\* (bits 48..63 all equal to bit 47) and false for every V in the gap
C24_ValidIffCanonical ==
    \A c \in CPUS : cpu[c].fn = "is_valid_address" =>
        (cpu[c].ret = FromNat(1)) = Canonical(cpu[c].addr)

\* is_valid_address has accepted 0xFFFF_8000_0000_0000
C24_Witness ==
    \E c \in CPUS : cpu[c].fn = "is_valid_address" /\ cpu[c].addr = 47..63
                      /\ cpu[c].ret = FromNat(1)

\* the 8-byte word of data at the virtual address va
DataAt(va) ==
    LET w == HwWalk(mem, va)
    IN  Read(mem, BitAnd(w.phys, BitNot(OffsetMask(BasePageSize))),
             table_index(Shl(va, 9), 0))

PresentSlots(frames) == {x \in DOMAIN mem : x[1] \in frames /\ is_present(mem[x])}
Below(slots) == {HwFrame(mem[x]) : x \in {y \in slots : ~(HUGE_PAGE \subseteq mem[y])}}
RootSlots == {x \in PresentSlots({RootFrame}) : x[2] # SelfMapIndex}
PdptSlots == PresentSlots(Below(RootSlots))
PdtSlots == PresentSlots(Below(PdptSlots))
PgtSlots == PresentSlots(Below(PdtSlots))

\* C26: every present leaf entry refers to a frame aligned to its page size:
\* a level-1 entry with HUGE has address bits 12..20 clear and a level-2
\* entry with HUGE has address bits 12..29 clear (a level-0 entry keeps its
\* flags in bits 0..11, so its frame is always 4 KiB-aligned).
C26_LeafAligned ==
    /\ \A x \in PgtSlots : BitAnd(address(mem[x]), OffsetMask(BasePageSize)) = {}
    /\ \A x \in PdtSlots :
           HUGE_PAGE \subseteq mem[x] => BitAnd(address(mem[x]), OffsetMask(LargePageSize)) = {}
    /\ \A x \in PdptSlots :
           HUGE_PAGE \subseteq mem[x] => BitAnd(address(mem[x]), OffsetMask(HugePageSize)) = {}

\* C27: the HUGE bit is set in no entry of the root table and in no entry of
\* a level-0 table.
C27_HugeOnlyAtLevels1And2 ==
    /\ \A x \in PresentSlots({RootFrame}) : ~(HUGE_PAGE \subseteq mem[x])
    /\ \A x \in PgtSlots : ~(HUGE_PAGE \subseteq mem[x])
\* the frames of the page tables the MMU reaches from the root
ReachableTables == {RootFrame} \cup Below(RootSlots) \cup Below(PdptSlots) \cup Below(PdtSlots)

\* C28: every entry of every table reachable from the root is present or the
\* all-zero word.
C28_PresentOrZero ==
    \A x \in DOMAIN mem : x[1] \in ReachableTables => (is_present(mem[x]) \/ mem[x] = {})

\* a 4 KiB page that was present has been unmapped, and the three tables that
\* were created for it from frames with stale words hold no entry but the two
\* on the path
C28_Witness ==
    \E c \in CPUS :
        /\ UnmapStepped(c) /\ cpu[c].stepPre /\ cpu[c].S = BasePageSize
        /\ Cardinality(ReachableTables) = 4 /\ next = 3
        /\ Cardinality(RootSlots) = 1 /\ Cardinality(PdptSlots) = 1
        /\ Cardinality(PdtSlots) = 1 /\ PgtSlots = {}
\* the slots of the entries that refer to a page table (the entries of the
\* root, and the entries without HUGE of the tables of levels 2 and 1)
IntermediateSlots ==
    RootSlots \cup {x \in PdptSlots \cup PdtSlots : ~(HUGE_PAGE \subseteq mem[x])}
KeyBits == 59..62

\* the entry a map of the page finds at level L of its walk, in memory m
PathEntry(m, L, page) == get_page_table_entry(m, ROOT_PAGETABLE, 3, [MAP_LEVEL |-> L], page)

\* C29: every intermediate entry (all of them are created by the walker) has
\* WRITABLE set and USER, EXECUTE-DISABLE and the protection-key bits clear,
\* and a single-page map leaves every intermediate entry that it finds
\* present on its walk as it was.
C29_IntermediateEntries ==
    /\ [](\A x \in IntermediateSlots :
             /\ WRITABLE \subseteq mem[x]
             /\ BitAnd(mem[x], USER_ACCESSIBLE \cup EXECUTE_DISABLE \cup KeyBits) = {})
    /\ [][\A c \in CPUS :
             (/\ cpu[c].pc = "loop" /\ cpu[c].op = "map"
              /\ cpu'[c].steps = cpu[c].steps + 1) =>
                 \A L \in (cpu[c].S.MAP_LEVEL + 1)..3 :
                     LET e == PathEntry(mem, L, cpu[c].current)
                     IN  e.kind = "Some" =>
                             Read(mem', e.slot[1], e.slot[2]) = e.entry]_vars
\* the assertions of set() for the physical address and the flags of a leaf
\* entry of a page of size S
Acceptable(S, physical_address, flags) ==
    /\ IF HUGE_PAGE \subseteq BitOr(S.MAP_EXTRA_FLAG, flags)
       THEN BitAnd(physical_address, OffsetMask(LargePageSize)) = {}
       ELSE BitAnd(physical_address, OffsetMask(BasePageSize)) = {}
    /\ \A i \in physical_address : i < PhysicalAddressBits

\* C30: a single-page map whose physical address is not aligned (to 4 KiB, or
\* to 2 MiB when the flags contain HUGE) or is wider than the physical
\* addresses of the CPU ends in a panic, and the leaf slot of the page holds
\* what it held before (nothing, if its table did not exist): no map with
\* such an address ever completes.
C30_BadAddressFatal ==
    /\ [](\A c \in CPUS :
             MapStepped(c) => Acceptable(cpu[c].S, cpu[c].stepPa, cpu[c].flags))
    /\ [][\A c \in CPUS :
             (/\ cpu[c].pc = "loop" /\ cpu[c].op = "map" /\ cpu'[c] # cpu[c]
              /\ Le(cpu[c].current, cpu[c].last)
              /\ ~Acceptable(cpu[c].S, cpu[c].pa, cpu[c].flags)) =>
                 LET before == PathEntry(mem, cpu[c].S.MAP_LEVEL, cpu[c].current)
                     after == PathEntry(mem', cpu[c].S.MAP_LEVEL, cpu[c].current)
                 IN  /\ cpu'[c].pc = "panic" /\ panicked'
                     /\ after.entry = before.entry
                     /\ before.kind = "Some" => after = before]_vars

\* a map with a misaligned or too wide address has panicked at a page that
\* was mapped before, and the entry of the page is still there
C30_Witness ==
    \E c \in CPUS :
        /\ cpu[c].pc = "panic" /\ cpu[c].op = "map" /\ cpu[c].pa \in BadFrames
        /\ PathEntry(mem, cpu[c].S.MAP_LEVEL, cpu[c].current).kind = "Some"
\* C31: an entry that refers to a page table stays present and keeps its
\* value in every step, and a single-page unmap changes no entry but the leaf
\* slot of its page.
C31_TablesNeverFreed ==
    /\ [][\A x \in IntermediateSlots : x \in DOMAIN mem' /\ mem'[x] = mem[x]]_vars
    /\ [][\A c \in CPUS :
             (/\ cpu[c].pc = "loop" /\ cpu[c].op = "unmap"
              /\ cpu'[c].steps = cpu[c].steps + 1) =>
                 \A x \in (DOMAIN mem \cup DOMAIN mem') \ {cpu'[c].stepSlot} :
                     x \in DOMAIN mem /\ x \in DOMAIN mem' /\ mem'[x] = mem[x]]_vars
\* the levels above the map level of S at which a map of the page finds no
\* present entry on its walk
AbsentLevels(m, S, page) ==
    {L \in (S.MAP_LEVEL + 1)..3 : PathEntry(m, L, page).kind # "Some"}

\* C32: a single-page map takes one frame from get_pages for each level
\* above the map level of S whose entry on the walk is not present, and none
\* when all of them are present.
C32_OneFramePerAbsentLevel ==
    [][\A c \in CPUS :
          (/\ cpu[c].pc = "loop" /\ cpu[c].op = "map"
           /\ cpu'[c].steps = cpu[c].steps + 1) =>
              next' - next = Cardinality(AbsentLevels(mem, cpu[c].S, cpu[c].current))]_vars

\* a map of two neighbouring 4 KiB pages into an empty hierarchy has
\* completed with three frames taken
C32_Witness ==
    \E c \in CPUS : MapStepped(c) /\ cpu[c].S = BasePageSize /\ cpu[c].steps = 2
                      /\ next = 3 /\ calls = 1
C34_LowRegion ==
    /\ [](\A c \in CPUS :
             (cpu[c].fn = "init_pages_before_kernel" /\ cpu[c].pc \in {"rekey", "return"}) =>
                 \A i \in 0..(LowPages - 1) :
                     LET w == HwWalk(mem, LowPage(i))
                     IN  /\ w.ok /\ w.level = 0 /\ w.phys = LowPage(i)
                         /\ WRITABLE \subseteq w.entry /\ EXECUTE_DISABLE \subseteq w.entry
                         /\ KeyOf(w.entry) = IF i = 0 /\ cpu[c].pc = "return"
                                             THEN 0 ELSE SAFE_MEM_REGION)
    /\ [][\A c \in CPUS :
             (cpu[c].pc = "rekey" /\ cpu'[c].pc = "return") =>
                 /\ DOMAIN mem' = DOMAIN mem
                 /\ \A x \in DOMAIN mem :
                        mem'[x] \ KeyBits = mem[x] \ KeyBits
                 /\ \A i \in 1..(LowPages - 1) :
                        HwWalk(mem', LowPage(i)).entry = HwWalk(mem, LowPage(i)).entry]_vars

\* init_pages_before_kernel has returned
C34_Witness ==
    \E c \in CPUS :
        /\ cpu[c].fn = "init_pages_before_kernel" /\ cpu[c].pc = "return"
        /\ KeyOf(HwWalk(mem, LowPage(0)).entry) = 0
        /\ KeyOf(HwWalk(mem, LowPage(LowPages - 1)).entry) = SAFE_MEM_REGION
\* the 4 KiB pages that overlap [line, line + size): those among the pages
\* around line that begin below line + size and end above line
CmdPages(line, size) ==
    {p \in PagesOf(BitAnd(line, BitNot(OffsetMask(BasePageSize))), 3) :
        size # {} /\ Lt(p, Add(line, size))}

\* C35: when the loop of map_cmdline is done, each page that overlaps the
\* command line translates to its own address through a level-0 entry with
\* EXECUTE-DISABLE and without WRITABLE, and the loop has mapped those pages
\* and no other; with cmdsize = 0 the call returns at once, without the
\* lock, and no entry changes.
C35_CmdlineMapped ==
    /\ [](\A c \in CPUS : cpu[c].fn = "map_cmdline" =>
             /\ Mapped(c) =>
                    /\ \A p \in CmdPages(cpu[c].addr, cpu[c].size) :
                           LET w == HwWalk(mem, p)
                           IN  /\ w.ok /\ w.level = 0 /\ w.phys = p
                               /\ EXECUTE_DISABLE \subseteq w.entry
                               /\ ~(WRITABLE \subseteq w.entry)
                    /\ {PageOf(cpu[c], i) : i \in 0..(cpu[c].steps - 1)}
                           = CmdPages(cpu[c].addr, cpu[c].size)
             /\ cpu[c].size = {} => cpu[c].pc = "return" /\ ~cpu[c].holds)
    /\ [][\A c \in CPUS :
             (cpu'[c].fn = "map_cmdline" /\ cpu[c].pc = "idle" /\ cpu'[c].size = {}) =>
                 UNCHANGED <<mem, locked, ipi>>]_vars

\* map_cmdline has mapped the two pages of a command line that crosses a
\* page boundary
C35_Witness ==
    \E c \in CPUS : cpu[c].fn = "map_cmdline" /\ Mapped(c) /\ cpu[c].steps = 2
                      /\ cpu[c].addr = cmdline
\* C36: the diagnostic reads the error code by the Intel layout: cause is
\* "protection" exactly when bit 0 is set and "not present" otherwise, the
\* operation is a write exactly when bit 1 is set, the mode is "user" exactly
\* when bit 2 is set, "reserved bit" is reported exactly when bit 3 is set and
\* an instruction fetch exactly when bit 4 is set.
C36_IntelLayout ==
    \A c \in CPUS :
        cpu[c].fn = "PageFaultError::fmt" =>
            LET d == cpu[c].diag
                e == cpu[c].err
            IN /\ d.cause = (IF 0 \in e THEN "protection" ELSE "not present")
               /\ (d.operation = "write") = (1 \in e)
               /\ (d.mode = "user") = (2 \in e)
               /\ (d.reserved = "reserved bit") = (3 \in e)
               /\ (d.ty = "instruction") = (4 \in e)

\* both CPUs are in the heap branch of the fault handler for the same page
SameFault(c, d) ==
    /\ c # d
    /\ cpu[c].fn = "page_fault_handler" /\ cpu[d].fn = "page_fault_handler"
    /\ cpu[c].op = "fault" /\ cpu[d].op = "fault"
    /\ cpu[c].current = cpu[d].current

\* C37: when two CPUs fault on the same heap page that is not mapped, the
\* handler that takes the lock first obtains one frame for the page and maps
\* it; the other handler finds the page present, obtains no frame and
\* changes no entry, so that one frame was allocated for the page and the
\* page stays mapped to it
C37_ConcurrentFaults ==
    /\ [](\A c, d \in CPUS :
            (/\ SameFault(c, d) /\ FaultHandled(c) /\ FaultHandled(d)
             /\ ~cpu[c].stepPre) =>
                /\ cpu[d].stepPre
                /\ cpu[d].nextPre >= cpu[c].nextPre + 1 + cpu[c].newTables
                /\ next = cpu[d].nextPre
                /\ MappedEntry(BasePageSize, cpu[c].stepPage, cpu[c].stepPa,
                               BitOr(WRITABLE, EXECUTE_DISABLE)))
    /\ [][\A c, d \in CPUS :
             (/\ SameFault(c, d) /\ cpu[d].pc = "handle"
              /\ FaultHandled(c) /\ ~cpu[c].stepPre
              /\ cpu'[d] # cpu[d]) =>
                 (mem' = mem /\ next' = next /\ cpu'[d].stepPre)]_vars
    /\ [][\A c, d \in CPUS :
             (/\ SameFault(c, d) /\ cpu[c].pc = "handle" /\ cpu[d].pc = "lock"
              /\ lookup(BasePageSize, cpu[c].current).kind = "None"
              /\ cpu'[c].pc = "unlock") =>
                 (/\ next' = next + 1 + MissingTables(mem, cpu[c].current)
                  /\ cpu'[d] = cpu[d])]_vars

\* both handlers have run: the first mapped the page, the second found it
C37_Witness ==
    \E c, d \in CPUS :
        /\ SameFault(c, d) /\ FaultHandled(c) /\ FaultHandled(d)
        /\ ~cpu[c].stepPre /\ cpu[d].stepPre /\ cpu[d].holds

\* the walk of a page of size S passes a present entry with HUGE at a level
\* above S::MAP_LEVEL
ThroughHuge(m, S, page) ==
    \E L \in 1..2 :
        /\ L > S.MAP_LEVEL
        /\ PathEntry(m, L, page).kind = "Some"
        /\ HUGE_PAGE \subseteq PathEntry(m, L, page).entry

\* C38: no map, unmap or lookup of a page of size S descends through a
\* present entry at level 1 or 2 that has HUGE set: a step of the walker is
\* never taken for a page whose walk passes such an entry above S::MAP_LEVEL
C38_NoDescentThroughHuge ==
    [][\A c \in CPUS :
          /\ (cpu[c].pc \in {"loop", "handle"} /\ cpu'[c].steps # cpu[c].steps) =>
                 ~ThroughHuge(mem, cpu[c].S, cpu[c].current)
          /\ (cpu[c].pc = "lookup" /\ cpu'[c] # cpu[c]) =>
                 ~ThroughHuge(mem, TranslateSize(cpu[c].addr),
                              including_address(TranslateSize(cpu[c].addr),
                                                cpu[c].addr).page)]_vars

\* the loop of an unmap is about to take the page cpu[c].current, which a
\* lookup does not find
UnmapsAbsent(c) ==
    /\ cpu[c].pc = "loop" /\ cpu[c].op = "unmap"
    /\ Le(cpu[c].current, cpu[c].last)
    /\ lookup(cpu[c].S, cpu[c].current).kind # "Some"

\* C39: the unmap of a page that is not mapped takes no frame and creates no
\* table; when an entry above the map level is not present on its walk the
\* kernel panics and no entry has changed; when all of them are present the
\* unmap completes and memory is as before (the leaf slot stays zero).
\* page_unmap with npages = 0 returns 0 without taking the lock, changes no
\* entry and sends no IPI.
C39_UnmapOfUnmapped ==
    /\ [][\A c \in CPUS :
             (UnmapsAbsent(c) /\ cpu'[c] # cpu[c]) =>
                 /\ next' = next /\ mem' = mem
                 /\ AbsentLevels(mem, cpu[c].S, cpu[c].current) # {} =>
                        (panicked' /\ cpu'[c].pc = "panic")
                 /\ (/\ AbsentLevels(mem, cpu[c].S, cpu[c].current) = {}
                     /\ wrapping) =>
                        (/\ ~panicked' /\ cpu'[c].steps = cpu[c].steps + 1
                         /\ PathEntry(mem', cpu[c].S.MAP_LEVEL, cpu[c].current).kind = "None")]_vars
    /\ [](\A c \in CPUS :
            (cpu[c].fn = "page_unmap" /\ cpu[c].npages = {}) =>
                /\ cpu[c].pc = "return" /\ ~cpu[c].holds
                /\ cpu[c].ipis = 0 /\ cpu[c].ret = {})
    /\ [][\A c \in CPUS :
             (cpu'[c].fn = "page_unmap" /\ cpu'[c].npages = {} /\ cpu[c].pc = "idle") =>
                 (/\ mem' = mem /\ next' = next /\ ipi' = ipi /\ tlb' = tlb
                  /\ locked' = locked /\ ~panicked')]_vars

\* an unmap has taken a page that was not mapped below tables that exist
C39_Witness ==
    \E c \in CPUS :
        /\ UnmapStepped(c) /\ ~cpu[c].stepPre /\ ~panicked
        /\ lookup(cpu[c].S, cpu[c].stepPage).kind = "None"

\* C40: deallocate(V, sz) of a region that allocate returned in a keyed
\* domain and that is still mapped hands V to the virtual allocator and the
\* physical base that allocate obtained to the physical allocator, with sz
\* rounded up to 4 KiB; address() of the keyed leaf entry is the frame base
C40_DeallocateRoundTrip ==
    \A c \in CPUS :
        (/\ cpu[c].fn = "deallocate" /\ cpu[c].pc = "return" /\ cpu[c].stepped
         /\ lookup(BasePageSize, cpu[c].first).kind = "Some"
         /\ KeyOf(lookup(BasePageSize, cpu[c].first).entry) \in 1..3) =>
            /\ cpu[c].addr = cpu[c].first
            /\ cpu[c].npages = FromNat(RoundedPages(cpu[c].sz))
            /\ cpu[c].stepPa = cpu[c].pa0
            /\ address(lookup(BasePageSize, cpu[c].first).entry) = cpu[c].pa0

====
